---------------------------- MODULE Spec2Model ----------------------------
(***************************************************************************)
(* A model of the console slog handler: Handler (NewHandler, Handle,       *)
(* WithAttrs, WithGroup, extractHeaders), the pooled encoder (newEncoder,  *)
(* free, writeTimestamp, writeLevel, writeSource, writeMessage,            *)
(* writeHeaders, writeHeaderSeparator, writeAttr, writeColoredValue) and   *)
(* the byte buffer the handler keeps its bound attributes in.              *)
(*                                                                         *)
(* Text is a sequence of one-character strings, so that concatenation,     *)
(* trimming, joining with "." and the search for a line break are          *)
(* computed byte by byte.  A Go slice is a record [arr, len, cap] over a   *)
(* heap of backing arrays, so that two slices sharing storage are visible. *)
(***************************************************************************)
EXTENDS Integers, Sequences, FiniteSets, TLC

VARIABLES
    opts,       \* HandlerOptions of the lineage (Headers, ReplaceAttr, AddSource, NoColor)
    handlers,   \* every Handler built so far; handlers[1] is the one NewHandler returned
    garrs,      \* heap: backing arrays of the []string slices Handler.groups
    carrs,      \* heap: backing arrays of the buffers Handler.context
    harrs,      \* heap: backing arrays of the []slog.Attr slices Handler.headers
    pool,       \* encoderPool: the encoders put back by free()
    procs,      \* the calls of Handle in progress, one per caller
    sink,       \* h.out: what the writer received, write by write
    nrenders    \* how many calls of Handle were started

vars == <<opts, handlers, garrs, carrs, harrs, pool, procs, sink, nrenders>>

-----------------------------------------------------------------------------
(* Bounds of the model *)

\* Spec: the Handlers of the lineage, the root included.
MaxHandlers == 2
\* SpecDerive: the Handlers of the lineage, the root included.
MaxLineage == 4
\* SpecGroups: the Handlers of the lineage, the root included.
MaxChain == 6

-----------------------------------------------------------------------------
(* Text *)

Range(s) == {s[i] : i \in DOMAIN s}

RECURSIVE Flatten(_)
\* The bytes of a sequence of chunks, in order.
Flatten(chunks) ==
    IF chunks = <<>> THEN <<>> ELSE Head(chunks) \o Flatten(Tail(chunks))

\* Whether needle occurs in hay as a contiguous run.
Contains(hay, needle) ==
    \E i \in 0..(Len(hay) - Len(needle)) :
        \A j \in 1..Len(needle) : hay[i + j] = needle[j]

\* F(v), with v computed once however often F uses it.
Let(v, F(_)) == CHOOSE r \in {F(x) : x \in {v}} : TRUE

IsPrefix(p, s) == Len(p) <= Len(s) /\ SubSeq(s, 1, Len(p)) = p

IsSpace(c) == c \in {" ", "\t", "\n", "\r"}

RECURSIVE TrimLeft(_)
TrimLeft(s) == IF s # <<>> /\ IsSpace(Head(s)) THEN TrimLeft(Tail(s)) ELSE s

RECURSIVE TrimRight(_)
TrimRight(s) ==
    IF s # <<>> /\ IsSpace(s[Len(s)]) THEN TrimRight(SubSeq(s, 1, Len(s) - 1)) ELSE s

\* strings.TrimSpace
TrimSpace(s) == TrimRight(TrimLeft(s))

Digit(d) == CASE d = 0 -> "0" [] d = 1 -> "1" [] d = 2 -> "2" [] d = 3 -> "3"
              [] d = 4 -> "4" [] d = 5 -> "5" [] d = 6 -> "6" [] d = 7 -> "7"
              [] d = 8 -> "8" [] d = 9 -> "9"

RECURSIVE UDec(_)
UDec(n) == IF n < 10 THEN <<Digit(n)>> ELSE UDec(n \div 10) \o <<Digit(n % 10)>>

\* strconv.AppendInt(_, n, 10)
Itoa(n) == IF n < 0 THEN <<"-">> \o UDec(0 - n) ELSE UDec(n)

\* fmt.Sprintf("%d", n)
PlainDec(n) == IF n < 0 THEN <<"-">> \o UDec(0 - n) ELSE UDec(n)

\* fmt.Sprintf("%+d", n)
SignedDec(n) == IF n < 0 THEN <<"-">> \o UDec(0 - n) ELSE <<"+">> \o UDec(n)

-----------------------------------------------------------------------------
(* slog.Value and slog.Attr *)

Val(k, s, sub, n) == [kind |-> k, str |-> s, sub |-> sub, n |-> n]

StringValue(s) == Val("String", s, <<>>, 0)
\* slog.Value{}: KindAny holding nil (also slog.AnyValue(nil))
NilValue       == Val("Any", <<>>, <<>>, 0)
GroupValue(as) == Val("Group", <<>>, as, 0)
TimeValue(t)   == Val("Time", <<>>, <<>>, t)
\* KindAny holding a slog.Level
LevelValue(l)  == Val("Level", <<>>, <<>>, l)
\* KindAny holding a non-nil *slog.Source
SourceValue(file, line) == Val("Source", file, <<>>, line)
Attr(k, v)     == [key |-> k, val |-> v]
\* KindLogValuer: a value whose LogValue() returns v
ValuerValue(v) == Val("LogValuer", <<>>, <<Attr(<<>>, v)>>, 0)
\* slog.Attr{}
EmptyAttr      == Attr(<<>>, NilValue)

\* a value that never reads as slog.Value{}
NeverNilValue(v) == FALSE

\* Value.Equal(slog.Value{})
IsNilValue(v) == v.kind = "Any"
\* an attribute that never reads as the empty attribute
NeverEmptyAttr(a) == FALSE

\* Attr.Equal(slog.Attr{})
IsEmptyAttr(a) == a.key = <<>> /\ IsNilValue(a.val)

RECURSIVE Resolve(_)
\* Value.Resolve: call LogValue until the value is no LogValuer.
Resolve(v) == IF v.kind = "LogValuer" THEN Resolve(v.sub[1].val) ELSE v


-----------------------------------------------------------------------------
(* Text constants of the program *)

TimeKey    == <<"t", "i", "m", "e">>
LevelKey   == <<"l", "e", "v", "e", "l">>
SourceKey  == <<"s", "o", "u", "r", "c", "e">>
MessageKey == <<"m", "s", "g">>

\* The process working directory, and the file and line runtime.CallersFrames
\* reports for a non-zero pc.
Cwd       == <<"/", "w">>
FrameFile == Cwd \o <<"/", "f", ".", "g", "o">>
FrameLine == 7

\* filepath.Rel(cwd, file) for a file below cwd; any other file is left as it is.
RelPath(cwd, file) ==
    IF IsPrefix(cwd \o <<"/">>, file)
    THEN SubSeq(file, Len(cwd) + 2, Len(file))
    ELSE file

\* ANSI modifiers of the theme: an escape byte and a code, or empty for no style.
ResetMod == <<"ESC", "0">>
ThemeStyle(category) == <<"ESC", category>>

\* buffer.AppendTime(t, opts.TimeFormat)
FormatTime(t) == <<"T">> \o Itoa(t)

\* slog.Level.String(): the name of the greatest anchor not above l, and the offset.
LevelString(l) ==
    LET str(base, d) == IF d = 0 THEN base ELSE base \o SignedDec(d)
    IN  IF l < 0 THEN str(<<"D", "E", "B", "U", "G">>, l + 4)
        ELSE IF l < 4 THEN str(<<"I", "N", "F", "O">>, l)
        ELSE IF l < 8 THEN str(<<"W", "A", "R", "N">>, l - 4)
        ELSE str(<<"E", "R", "R", "O", "R">>, l - 8)

RECURSIVE ValueString(_), AttrsString(_)
\* slog.Value.String(), the fallback of writeColoredValue.
ValueString(v) ==
    CASE v.kind = "String"    -> v.str
      [] v.kind = "Any"       -> <<"<", "n", "i", "l", ">">>
      [] v.kind = "Time"      -> FormatTime(v.n)
      [] v.kind = "Level"     -> LevelString(v.n)
      [] v.kind = "Source"    -> <<"&", "{">> \o v.str \o <<" ">> \o Itoa(v.n) \o <<"}">>
      [] v.kind = "NilSource" -> <<"<", "n", "i", "l", ">">>
      [] v.kind = "LogValuer" -> <<"{">> \o ValueString(v.sub[1].val) \o <<"}">>
      [] v.kind = "Group"     -> <<"[">> \o AttrsString(v.sub) \o <<"]">>
AttrsString(as) ==
    IF as = <<>> THEN <<>>
    ELSE Head(as).key \o <<"=">> \o ValueString(Head(as).val)
         \o (IF Len(as) > 1 THEN <<" ">> ELSE <<>>) \o AttrsString(Tail(as))

-----------------------------------------------------------------------------
(* HandlerOptions.ReplaceAttr: the rewrite hooks the model configures *)

NoHook      == [name |-> "nil", key |-> <<>>, out |-> EmptyAttr]
\* func(groups, a) { return a }
IdentHook   == [name |-> "ident", key |-> <<>>, out |-> EmptyAttr]
\* func(groups, a) { return slog.String(a.Key, a.Key) }
KeyValHook  == [name |-> "keyval", key |-> <<>>, out |-> EmptyAttr]
\* replaceAttrWith(key, out): func(groups, a) { if a.Key == key { return out }; return a }
ReplaceHook(key, out) == [name |-> "replace", key |-> key, out |-> out]

\* opts.ReplaceAttr != nil
HasHook == opts.ReplaceAttr.name # "nil"

\* opts.ReplaceAttr(groups, a)
ReplaceAttr(groups, a) ==
    LET hk == opts.ReplaceAttr
    IN  CASE hk.name = "keyval"  -> Attr(a.key, StringValue(a.key))
          [] hk.name = "replace" -> IF a.key = hk.key THEN hk.out ELSE a
          [] OTHER               -> a

-----------------------------------------------------------------------------
(* encoder: the part of an encoder a call reads and writes.                *)
(* e.groups is the group chain handed to the hook, e.calls the ghost log   *)
(* of the hook's invocations (site, chain, key, kind), in order.           *)

Called(e, site, groups, a) ==
    [e EXCEPT !.calls = Append(@, [site |-> site, groups |-> groups, key |-> a.key,
                                   kind |-> a.val.kind])]

\* encoder.withColor: the chunks of f wrapped in the style and the reset.
withColor(c, chunks) ==
    IF c = <<>> \/ opts.NoColor THEN chunks ELSE <<c>> \o chunks \o <<ResetMod>>

\* encoder.writeColoredValue
writeColoredValue(value, style) ==
    CASE value.kind = "Time"  -> withColor(style, <<FormatTime(value.n)>>)
      [] value.kind = "Level" -> withColor(style, <<LevelString(value.n)>>)
      [] OTHER                -> withColor(style, <<ValueString(value)>>)

\* encoder.writeColoredString
writeColoredString(s, style) == withColor(style, <<s>>)

\* a time that never reads as the zero time
NeverZero(tt) == FALSE

\* time.Time.IsZero; the zero time is 0
IsZero(tt) == tt = 0

\* encoder.writeTimestamp: [e, out]
writeTimestamp(e, tt) ==
    IF IsZero(tt) THEN [e |-> e, out |-> <<>>]
    ELSE IF HasHook
    THEN LET a0   == Attr(TimeKey, TimeValue(tt))
             attr == ReplaceAttr(<<>>, a0)
             v    == Resolve(attr.val)
             e1   == Called(e, "time", <<>>, a0)
         IN  IF IsNilValue(v) THEN [e |-> e1, out |-> <<>>]
             ELSE IF v.kind # "Time"
             THEN [e |-> e1, out |-> writeColoredValue(v, ThemeStyle("t")) \o <<<<" ">>>>]
             ELSE IF IsZero(v.n) THEN [e |-> e1, out |-> <<>>]
             ELSE [e |-> e1,
                   out |-> withColor(ThemeStyle("t"), <<FormatTime(v.n)>>) \o <<<<" ">>>>]
    ELSE [e |-> e, out |-> withColor(ThemeStyle("t"), <<FormatTime(tt)>>) \o <<<<" ">>>>]

\* the switch choosing the anchor nearest to l
LevelCodeNearest(l) ==
    IF l >= 6 THEN [str |-> <<"E", "R", "R">>, delta |-> l - 8, style |-> ThemeStyle("e")]
    ELSE IF l >= 2 THEN [str |-> <<"W", "R", "N">>, delta |-> l - 4, style |-> ThemeStyle("w")]
    ELSE IF l >= -2 THEN [str |-> <<"I", "N", "F">>, delta |-> l, style |-> ThemeStyle("i")]
    ELSE [str |-> <<"D", "B", "G">>, delta |-> l + 4, style |-> ThemeStyle("d")]

\* The switch of encoder.writeLevel: the anchor's code and the signed offset.
LevelCode(l) ==
    IF l >= 8 THEN [str |-> <<"E", "R", "R">>, delta |-> l - 8, style |-> ThemeStyle("e")]
    ELSE IF l >= 4 THEN [str |-> <<"W", "R", "N">>, delta |-> l - 4, style |-> ThemeStyle("w")]
    ELSE IF l >= 0 THEN [str |-> <<"I", "N", "F">>, delta |-> l, style |-> ThemeStyle("i")]
    ELSE [str |-> <<"D", "B", "G">>, delta |-> l + 4, style |-> ThemeStyle("d")]

\* encoder.writeLevel: [e, out]
writeLevel(e, l0) ==
    LET a0    == Attr(LevelKey, LevelValue(l0))
        attr  == ReplaceAttr(<<>>, a0)
        v     == Resolve(attr.val)
        e1    == IF HasHook THEN Called(e, "level", <<>>, a0) ELSE e
        elide == HasHook /\ IsNilValue(v)
        writeVal == HasHook /\ v.kind # "Level"
        l     == IF HasHook /\ v.kind = "Level" THEN v.n ELSE l0
        lc    == LevelCode(l)
        str   == IF lc.delta # 0 THEN lc.str \o SignedDec(lc.delta) ELSE lc.str
    IN  IF elide THEN [e |-> e1, out |-> <<>>]
        ELSE IF writeVal
        THEN [e |-> e1, out |-> writeColoredValue(v, lc.style) \o <<<<" ">>>>]
        ELSE [e |-> e1, out |-> writeColoredString(str, lc.style) \o <<<<" ">>>>]

\* The tail of encoder.writeSource: the file relative to cwd, ':', the line, ' '.
writeSourceField(file, line) ==
    IF file = <<>> /\ line = 0 THEN <<>>
    ELSE withColor(ThemeStyle("s"), <<RelPath(Cwd, file), <<":">>, Itoa(line), <<" ">>>>)

\* the frame looked up whatever pc is
AnyFrame(pc) == [file |-> FrameFile, line |-> FrameLine]

\* src of writeSource before the hook: slog.Source{}, filled from
\* runtime.CallersFrames when pc > 0
CallersFrame(pc) ==
    IF pc > 0 THEN [file |-> FrameFile, line |-> FrameLine]
    ELSE [file |-> <<>>, line |-> 0]

\* encoder.writeSource: [e, out]
writeSource(e, pc) ==
    LET file == CallersFrame(pc).file
        line == CallersFrame(pc).line
    IN  IF HasHook
        THEN LET a0   == Attr(SourceKey, SourceValue(file, line))
                 attr == ReplaceAttr(<<>>, a0)
                 v    == Resolve(attr.val)
                 e1   == Called(e, "source", <<>>, a0)
             IN  IF IsNilValue(v) \/ v.kind = "NilSource" THEN [e |-> e1, out |-> <<>>]
                 ELSE IF v.kind = "Source"
                 THEN [e |-> e1, out |-> writeSourceField(v.str, v.n)]
                 ELSE [e |-> e1,
                       out |-> writeColoredValue(v, ThemeStyle("t")) \o <<<<" ">>>>]
        ELSE [e |-> e, out |-> writeSourceField(file, line)]

\* encoder.writeMessage: [e, out]
writeMessage(e, level, msg) ==
    LET style == IF level < 0 THEN ThemeStyle("M") ELSE ThemeStyle("m")
    IN  IF HasHook
        THEN LET a0   == Attr(MessageKey, StringValue(msg))
                 attr == ReplaceAttr(<<>>, a0)
                 v    == Resolve(attr.val)
                 e1   == Called(e, "msg", <<>>, a0)
             IN  IF IsNilValue(v) THEN [e |-> e1, out |-> <<>>]
                 ELSE [e |-> e1, out |-> writeColoredValue(v, style)]
        ELSE [e |-> e, out |-> writeColoredString(msg, style)]

RECURSIVE writeHeaders(_, _)
\* encoder.writeHeaders: [e, out]; the receiver is a copy, so e.groups is not
\* changed, and the hook is called with a nil chain.
writeHeaders(e, headers) ==
    IF headers = <<>> THEN [e |-> e, out |-> <<>>]
    ELSE LET a0   == Head(headers)
             hook == a0.val.kind # "Group" /\ HasHook
             a1   == IF hook THEN ReplaceAttr(<<>>, a0) ELSE a0
             a    == IF hook THEN [a1 EXCEPT !.val = Resolve(a1.val)] ELSE a1
             e1   == IF hook THEN Called(e, "header", <<>>, a0) ELSE e
             mine == IF IsNilValue(a.val) THEN <<>>
                     ELSE writeColoredValue(a.val, ThemeStyle("s")) \o <<<<" ">>>>
         IN  Let(writeHeaders(e1, Tail(headers)),
                 LAMBDA rest : [e |-> rest.e, out |-> mine \o rest.out])

\* encoder.writeHeaderSeparator
writeHeaderSeparator == writeColoredString(<<">", " ">>, ThemeStyle("k"))

RECURSIVE writeAttr(_, _, _), writeAttrList(_, _, _)
\* encoder.writeAttr: [e, out], out the chunks appended to the buffer, in order.
writeAttr(e, a0, group) ==
    LET r0   == [a0 EXCEPT !.val = Resolve(a0.val)]
        hook == r0.val.kind # "Group" /\ HasHook
        a1   == IF hook THEN ReplaceAttr(e.groups, r0) ELSE r0
        a    == IF hook THEN [a1 EXCEPT !.val = Resolve(a1.val)] ELSE a1
        e1   == IF hook THEN Called(e, "attr", e.groups, r0) ELSE e
    IN  IF IsEmptyAttr(a) THEN [e |-> e1, out |-> <<>>]
        ELSE IF a.val.kind = "Group"
        THEN LET subgroup == IF group # <<>> THEN group \o <<".">> \o a.key ELSE a.key
                 e2 == IF HasHook THEN [e1 EXCEPT !.groups = Append(@, a.key)] ELSE e1
                 r  == writeAttrList(e2, a.val.sub, subgroup)
                 e3 == IF HasHook
                       THEN [r.e EXCEPT !.groups = SubSeq(@, 1, Len(@) - 1)]
                       ELSE r.e
             IN  [e |-> e3, out |-> r.out]
        ELSE LET key == IF group # <<>>
                        THEN <<group, <<".">>, a.key, <<"=">>>>
                        ELSE <<a.key, <<"=">>>>
             IN  [e |-> e1,
                  out |-> <<<<" ">>>> \o withColor(ThemeStyle("k"), key)
                          \o writeColoredValue(a.val, ThemeStyle("v"))]
\* The loop "for _, attr := range value.Group()" of writeAttr.
writeAttrList(e, as, group) ==
    IF as = <<>> THEN [e |-> e, out |-> <<>>]
    ELSE Let(writeAttr(e, Head(as), group), LAMBDA r1 :
         Let(writeAttrList(r1.e, Tail(as), group), LAMBDA r2 :
         [e |-> r2.e, out |-> r1.out \o r2.out]))

-----------------------------------------------------------------------------
(* Go slices over a heap of backing arrays *)

\* The nil slice.
NilSlice == [arr |-> 0, len |-> 0, cap |-> 0]

\* s[0:len(s)]
SliceElems(heap, s) == IF s.len = 0 THEN <<>> ELSE SubSeq(heap[s.arr], 1, s.len)

\* The capacity append gives a slice that has to grow (runtime.growslice, below
\* the 256-element threshold): the needed length, or twice the old capacity.
GrowCap(oldCap, newLen) == IF newLen > 2 * oldCap THEN newLen ELSE 2 * oldCap

\* The allocator's size classes for a byte array (up to 128 bytes).
RoundUpBytes(n) ==
    IF n <= 32 THEN 8 * ((n + 7) \div 8)
    ELSE IF n <= 128 THEN 16 * ((n + 15) \div 16)
    ELSE n

\* append(s, elems...): [heap, s].  With room in the backing array the elements
\* are written in place, behind s[len(s)-1], whoever else shares the array;
\* without room a new array is allocated and s[0:len(s)] is copied into it.
AppendSlice(heap, s, elems, zero, bytes) ==
    LET n == Len(elems)
    IN  IF n = 0 THEN [heap |-> heap, s |-> s]
        ELSE IF s.len + n <= s.cap
        THEN [heap |-> [heap EXCEPT ![s.arr] =
                            [i \in 1..s.cap |->
                                IF i > s.len /\ i <= s.len + n
                                THEN elems[i - s.len] ELSE @[i]]],
              s    |-> [s EXCEPT !.len = s.len + n]]
        ELSE LET g  == GrowCap(s.cap, s.len + n)
                 nc == IF bytes THEN RoundUpBytes(g) ELSE g
                 na == [i \in 1..nc |->
                           IF i <= s.len THEN heap[s.arr][i]
                           ELSE IF i <= s.len + n THEN elems[i - s.len]
                           ELSE zero]
             IN  [heap |-> Append(heap, na),
                  s    |-> [arr |-> Len(heap) + 1, len |-> s.len + n, cap |-> nc]]

-----------------------------------------------------------------------------
(* buffer: the growable byte slice of Handler.context *)

\* buffer.Append / AppendString / AppendByte: *b = append(*b, data...)
bufAppend(heap, b, data) == AppendSlice(heap, b, data, "\\0", TRUE)

RECURSIVE bufAppendChunks(_, _, _)
\* The appends of one encoder call, chunk by chunk: [heap, s]
bufAppendChunks(heap, b, chunks) ==
    IF chunks = <<>> THEN [heap |-> heap, s |-> b]
    ELSE LET r == bufAppend(heap, b, Head(chunks))
         IN  bufAppendChunks(r.heap, r.s, Tail(chunks))

\* buffer.Clip: drop the spare capacity, so that the next append reallocates.
bufClip(b) == [b EXCEPT !.cap = b.len]

-----------------------------------------------------------------------------
(* encoderPool and encoder *)

\* cap(e.headers) of a new encoder
EncHeadersCap == 6

\* encoderPool.New
NewEncoder ==
    [headerBuf |-> <<>>, middleBuf |-> <<>>, trailerBuf |-> <<>>,
     groups |-> <<>>, calls |-> <<>>,
     hdr |-> [i \in 1..EncHeadersCap |-> EmptyAttr]]

\* encoderPool.Get(): any pooled encoder (i > 0), or a new one (i = 0).
PoolGet(i) == IF i = 0 THEN NewEncoder ELSE pool[i]
PoolRest(i) ==
    IF i = 0 THEN pool
    ELSE SubSeq(pool, 1, i - 1) \o SubSeq(pool, i + 1, Len(pool))

\* newEncoder(h), given the encoder the pool handed out
newEncoder(e, h) ==
    IF HasHook
    THEN [e EXCEPT !.groups = @ \o SliceElems(garrs, h.groups)]
    ELSE e

\* encoder.free(): the encoder as it is put back (its header array keeps its
\* contents, its length stays 0).
free(e) ==
    [e EXCEPT !.headerBuf = <<>>, !.middleBuf = <<>>, !.trailerBuf = <<>>,
              !.groups = <<>>, !.calls = <<>>]

-----------------------------------------------------------------------------
(* Handler *)

\* no key is a header key
HeaderIndexNone(key) == 0

\* slices.IndexFunc(h.opts.Headers, func(s) { return s == key }), 1-based; 0 for -1
HeaderIndex(key) ==
    IF \E i \in DOMAIN opts.Headers : opts.Headers[i] = key
    THEN CHOOSE i \in DOMAIN opts.Headers :
            /\ opts.Headers[i] = key
            /\ \A j \in 1..(i - 1) : opts.Headers[j] # key
    ELSE 0

\* headers = h.headers, written in place
ShareHeaders(heap, id) == [heap |-> heap, id |-> id]

\* make([]slog.Attr, len(h.headers)) without the copy
FreshHeaders(heap, id) ==
    [heap |-> Append(heap, [i \in 1..Len(heap[id]) |-> EmptyAttr]), id |-> Len(heap) + 1]

\* make([]slog.Attr, len(h.headers)); copy(headers, h.headers): [heap, id]
CopyHeaders(heap, id) == [heap |-> Append(heap, heap[id]), id |-> Len(heap) + 1]

RECURSIVE extractHeadersFrom(_, _, _, _, _, _)
\* The loop of Handler.extractHeaders from index i on: [changed, heap, id, attrs],
\* id the array of the slice it returns and attrs the caller's list as the loop
\* leaves it.
extractHeadersFrom(h, i, changed, heap, id, attrs) ==
    IF i > Len(attrs)
    THEN [changed |-> changed, heap |-> heap, id |-> id, attrs |-> attrs]
    ELSE LET idx == HeaderIndex(attrs[i].key)
             c   == IF changed THEN [heap |-> heap, id |-> id]
                    ELSE CopyHeaders(heap, h.headers)
         IN  IF idx > 0
             THEN extractHeadersFrom(h, i + 1, TRUE,
                                     [c.heap EXCEPT ![c.id][idx] = attrs[i]], c.id,
                                     [attrs EXCEPT ![i] = EmptyAttr])
             ELSE extractHeadersFrom(h, i + 1, changed, heap, id, attrs)

\* Handler.extractHeaders
extractHeaders(h, attrs) == extractHeadersFrom(h, 1, FALSE, harrs, h.headers, attrs)

\* newCtx after the writes, its spare capacity kept
WithAttrsContextNoClip(h, chunks) == bufAppendChunks(carrs, h.context, chunks)

\* The buffer WithAttrs hands to the new Handler: newCtx after the writes, clipped.
\* [heap, s]
WithAttrsContext(h, chunks) ==
    LET r == bufAppendChunks(carrs, h.context, chunks)
    IN  [heap |-> r.heap, s |-> bufClip(r.s)]

\* the name alone, the prefix of the receiver dropped
WithGroupPrefixNameOnly(h, name) == name

\* The group prefix WithGroup gives the new Handler.
WithGroupPrefix(h, name) ==
    IF h.groupPrefix # <<>> THEN h.groupPrefix \o <<".">> \o name ELSE name

\* append(h.groups, name) of WithGroup: [heap, s]
WithGroupGroups(h, name) == AppendSlice(garrs, h.groups, <<name>>, <<>>, FALSE)

-----------------------------------------------------------------------------
(* Handler.Handle *)

\* headers = h.headers, written in place by Handle
LocalHeadersShared(e, heap, h) ==
    [e |-> e, heap |-> heap, ref |-> [where |-> "heap", id |-> h.headers]]

\* The slice "headers" of Handle: h.headers itself (where = "heap", the array id)
\* or the copy held in the encoder's own header array (where = "enc").
HeapRef(id) == [where |-> "heap", id |-> id]
EncRef      == [where |-> "enc", id |-> 0]

\* headers = append(enc.headers, h.headers...): [e, heap, ref].  enc.headers has
\* length 0, so the copy lands in the encoder's array when it fits and in a new
\* array otherwise.
LocalHeaders(e, heap, h) ==
    LET src == heap[h.headers]
        n   == Len(src)
    IN  IF n <= EncHeadersCap
        THEN [e    |-> [e EXCEPT !.hdr = [i \in 1..EncHeadersCap |->
                                            IF i <= n THEN src[i] ELSE @[i]]],
              heap |-> heap, ref |-> EncRef]
        ELSE [e |-> e, heap |-> Append(heap, src), ref |-> HeapRef(Len(heap) + 1)]

\* headers[idx] = a: [e, heap]
SetHeader(e, heap, ref, idx, a) ==
    IF ref.where = "enc"
    THEN [e |-> [e EXCEPT !.hdr[idx] = a], heap |-> heap]
    ELSE [e |-> e, heap |-> [heap EXCEPT ![ref.id][idx] = a]]

\* The elements of the slice "headers"
HeaderElems(e, heap, ref) ==
    IF ref.where = "enc" THEN SubSeq(e.hdr, 1, Len(opts.Headers)) ELSE heap[ref.id]

\* a span that never reads as holding a line break
NoNewline(span) == FALSE

\* bytes.IndexByte(lastAttr, '\n') >= 0
HasNewline(span) == "\n" \in Range(span)

\* One call of the function Handle passes to rec.Attrs: [e, heap, ref, local]
HandleAttr(h, st, a) ==
    LET idx == HeaderIndex(a.key)
    IN  IF idx > 0
        THEN LET c == IF st.local THEN [e |-> st.e, heap |-> st.heap, ref |-> st.ref]
                      ELSE LocalHeaders(st.e, st.heap, h)
                 w == SetHeader(c.e, c.heap, c.ref, idx, a)
             IN  [e |-> w.e, heap |-> w.heap, ref |-> c.ref, local |-> TRUE]
        ELSE LET r        == writeAttr(st.e, a, h.groupPrefix)
                 lastAttr == Flatten(r.out)
             IN  IF HasNewline(lastAttr)
                 THEN [st EXCEPT !.e = [r.e EXCEPT !.trailerBuf = @ \o lastAttr]]
                 ELSE [st EXCEPT !.e = [r.e EXCEPT !.middleBuf = @ \o lastAttr]]

RECURSIVE HandleAttrs(_, _, _)
\* rec.Attrs(...): the function above on every attribute of the record, in order.
HandleAttrs(h, st, as) ==
    IF as = <<>> THEN st
    ELSE Let(HandleAttr(h, st, Head(as)), LAMBDA st1 : HandleAttrs(h, st1, Tail(as)))

\* headerLen taken once the source is written
HeaderLenAfterSource(beforeSource, afterSource) == Len(afterSource)

\* headerLen := headerBuf.Len(), taken before writeSource
HeaderLen(beforeSource, afterSource) == Len(beforeSource)

\* the separator written whenever the header section holds anything
SeparatorIfAny(headerBuf, headerLen) == Len(headerBuf) > 0

\* headerBuf.Len() > headerLen
NeedsSeparator(headerBuf, headerLen) == Len(headerBuf) > headerLen

\* the context copied into the body before the message is written
HandleEncodeContextFirst(h, rec, e0) ==
    Let(writeTimestamp(newEncoder(e0, h), rec.time), LAMBDA ts :
    Let(writeLevel(ts.e, rec.level), LAMBDA lv :
    Let(e0.headerBuf \o Flatten(ts.out) \o Flatten(lv.out), LAMBDA hb1 :
    Let(IF opts.AddSource THEN writeSource(lv.e, rec.pc)
        ELSE [e |-> lv.e, out |-> <<>>], LAMBDA src :
    Let(writeMessage(src.e, rec.level, rec.msg), LAMBDA msg :
    Let([msg.e EXCEPT !.headerBuf = hb1 \o Flatten(src.out),
                      !.middleBuf = @ \o SliceElems(carrs, h.context)
                                      \o Flatten(msg.out)], LAMBDA e2 :
    Let(HandleAttrs(h, [e |-> e2, heap |-> harrs, ref |-> HeapRef(h.headers),
                        local |-> FALSE], rec.attrs), LAMBDA st :
    [e |-> st.e, heap |-> st.heap, ref |-> st.ref, local |-> st.local,
     headerLen |-> HeaderLen(hb1, hb1 \o Flatten(src.out)), time |-> Flatten(ts.out),
     level |-> Flatten(lv.out), source |-> Flatten(src.out)])))))))

\* Handle from newEncoder to the end of rec.Attrs, given the encoder the pool
\* handed out: [e, heap, ref, local, headerLen], and the bytes writeTimestamp,
\* writeLevel and writeSource appended (time, level, source).
HandleEncode(h, rec, e0) ==
    Let(writeTimestamp(newEncoder(e0, h), rec.time), LAMBDA ts :
    Let(writeLevel(ts.e, rec.level), LAMBDA lv :
    Let(e0.headerBuf \o Flatten(ts.out) \o Flatten(lv.out), LAMBDA hb1 :
    Let(IF opts.AddSource THEN writeSource(lv.e, rec.pc)
        ELSE [e |-> lv.e, out |-> <<>>], LAMBDA src :
    Let(writeMessage(src.e, rec.level, rec.msg), LAMBDA msg :
    Let([msg.e EXCEPT !.headerBuf = hb1 \o Flatten(src.out),
                      !.middleBuf = @ \o Flatten(msg.out)
                                      \o SliceElems(carrs, h.context)], LAMBDA e2 :
    Let(HandleAttrs(h, [e |-> e2, heap |-> harrs, ref |-> HeapRef(h.headers),
                        local |-> FALSE], rec.attrs), LAMBDA st :
    [e |-> st.e, heap |-> st.heap, ref |-> st.ref, local |-> st.local,
     headerLen |-> HeaderLen(hb1, hb1 \o Flatten(src.out)), time |-> Flatten(ts.out),
     level |-> Flatten(lv.out), source |-> Flatten(src.out)])))))))

\* the line terminated in the body whether or not the trailer holds bytes
HandleSectionsBodyNewLine(e, headers, headerLen) ==
    Let(IF Len(headers) > 0 THEN writeHeaders(e, headers)
        ELSE [e |-> e, out |-> <<>>], LAMBDA wh :
    Let(e.headerBuf \o Flatten(wh.out), LAMBDA hb :
    Let(IF NeedsSeparator(hb, headerLen)
        THEN hb \o Flatten(writeHeaderSeparator) ELSE hb, LAMBDA hb2 :
    [wh.e EXCEPT !.headerBuf = hb2, !.middleBuf = @ \o <<"\n">>])))

\* Handle from "add additional headers after the source" to the line terminator:
\* the encoder with its three sections complete.
HandleSections(e, headers, headerLen) ==
    Let(IF Len(headers) > 0 THEN writeHeaders(e, headers)
        ELSE [e |-> e, out |-> <<>>], LAMBDA wh :
    Let(e.headerBuf \o Flatten(wh.out), LAMBDA hb :
    Let(IF NeedsSeparator(hb, headerLen)
        THEN hb \o Flatten(writeHeaderSeparator) ELSE hb, LAMBDA hb2 :
    IF Len(e.trailerBuf) = 0
    THEN [wh.e EXCEPT !.headerBuf = hb2, !.middleBuf = @ \o <<"\n">>]
    ELSE [wh.e EXCEPT !.headerBuf = hb2, !.trailerBuf = @ \o <<"\n">>])))

\* What Handle(h, rec) builds with a new encoder, in the state as it is: the
\* encoder with its sections and the hook calls it made.
HandleOut(h, rec) ==
    Let(HandleEncode(h, rec, NewEncoder), LAMBDA enc :
        HandleSections(enc.e, HeaderElems(enc.e, enc.heap, enc.ref), enc.headerLen))

\* The line Handle(h, rec) writes when no write fails.
HandleLine(h, rec) ==
    LET e == HandleOut(h, rec) IN e.headerBuf \o e.middleBuf \o e.trailerBuf

-----------------------------------------------------------------------------
(* The inputs the model draws from *)

kFoo == <<"f", "o", "o">>
kBar == <<"b", "a", "r">>
kK   == <<"k">>
sX   == StringValue(<<"x">>)
sY   == StringValue(<<"y">>)
sZ   == StringValue(<<"z">>)
\* a value whose rendering spans two lines
sML  == StringValue(<<"a", "\n", "b">>)

\* HandlerOptions given to NewHandler
Opt(hd, hook, src, nc) ==
    [Headers |-> hd, ReplaceAttr |-> hook, AddSource |-> src, NoColor |-> nc]

Configs ==
    { Opt(<<>>, NoHook, TRUE, TRUE),
      Opt(<<kFoo, kBar>>, NoHook, FALSE, TRUE),
      Opt(<<kFoo, kBar>>, IdentHook, TRUE, FALSE),
      Opt(<<kFoo>>, KeyValHook, TRUE, TRUE) }

\* The names given to WithGroup
GroupNames == {<<"g">>, <<"h">>}

\* The attribute lists given to WithAttrs
AttrLists ==
    { <<Attr(kK, sX)>>,
      <<Attr(kBar, sY)>>,
      <<Attr(kFoo, sX), Attr(kBar, sZ), Attr(kK, sY)>> }

\* The derivations of Spec; SpecDerive takes its group names from here too
RenderGroupNames == {<<"g">>}
RenderAttrLists  == {<<Attr(kFoo, sY), Attr(kK, sY)>>}

\* slog.Record
Rec(t, l, pc, as) ==
    [time |-> t, level |-> l, msg |-> <<"m">>, pc |-> pc, attrs |-> as]

\* The records given to Handle
Events ==
    { Rec(1, 0, 1, <<Attr(kBar, sX), Attr(kK, sZ)>>),
      Rec(0, 4, 0, <<>>),
      Rec(1, 1, 0, <<Attr(kK, sML), Attr(kFoo, sX)>>) }

NoRec == Rec(0, 0, 0, <<>>)

-----------------------------------------------------------------------------
(* State *)

\* A Handler.  The fields of ghost record its derivation: parent the Handler it
\* was derived from, given the attributes WithAttrs was called with, path the
\* names its WithGroup derivations were given, own the bytes its own WithAttrs
\* appended, want the bytes bound along its derivation path, slots the header
\* values bound along its derivation path.
Handler(prefix, groups, context, headers, ghost) ==
    [groupPrefix |-> prefix, groups |-> groups, context |-> context,
     headers |-> headers, parent |-> ghost.parent, given |-> ghost.given,
     path |-> ghost.path, own |-> ghost.own, want |-> ghost.want,
     slots |-> ghost.slots]

\* The header slots after attrs were supplied: per configured key, the last
\* attribute of attrs with that key, or else the slot as it was.
Override(slots, attrs) ==
    [i \in DOMAIN slots |->
        LET S == {j \in DOMAIN attrs : attrs[j].key = opts.Headers[i]}
        IN  IF S = {} THEN slots[i]
            ELSE attrs[CHOOSE j \in S : \A k \in S : k <= j]]

\* What one call of Handle wrote to its header section, part by part (ghost).
NoParts == [time |-> <<>>, level |-> <<>>, source |-> <<>>, slots |-> <<>>,
            headers |-> <<>>]

\* A caller outside Handle; res is what its last call returned.
Idle(res) ==
    [pc |-> "idle", r |-> 0, h |-> 0, rec |-> NoRec, e |-> NewEncoder,
     parts |-> NoParts, res |-> res]

\* The callers that may be inside Handle at the same moment.
Procs == {1, 2}

\* NewHandler(out, opts), opts one of configs
InitWith(configs) ==
    /\ opts \in configs
    /\ harrs = << [i \in 1..Len(opts.Headers) |-> EmptyAttr] >>
    /\ garrs = <<>>
    /\ carrs = <<>>
    /\ handlers = << Handler(<<>>, NilSlice, NilSlice, 1,
                             [parent |-> 0, given |-> <<>>, path |-> <<>>,
                              own |-> <<>>, want |-> <<>>,
                              slots |-> [i \in 1..Len(opts.Headers) |-> EmptyAttr]]) >>
    /\ pool = <<>>
    /\ procs = [p \in Procs |-> Idle("none")]
    /\ sink = <<>>
    /\ nrenders = 0

Init == InitWith(Configs)

-----------------------------------------------------------------------------
(* Operations *)

\* h.WithAttrs(attrs); i chooses the encoder the pool hands out, which WithAttrs
\* never puts back.
WithAttrs(hi, attrs, i) ==
    /\ LET h == handlers[hi]
           x == extractHeaders(h, attrs)
           e == newEncoder(PoolGet(i), h)
           r == writeAttrList(e, x.attrs, h.groupPrefix)
           c == WithAttrsContext(h, r.out)
       IN  /\ handlers' = Append(handlers,
                 Handler(h.groupPrefix, h.groups, c.s, x.id,
                         [parent |-> hi, given |-> attrs, path |-> h.path,
                          own |-> Flatten(r.out), want |-> h.want \o Flatten(r.out),
                          slots |-> Override(h.slots, attrs)]))
           /\ carrs' = c.heap
           /\ harrs' = x.heap
           /\ pool' = PoolRest(i)
    /\ UNCHANGED <<opts, garrs, procs, sink, nrenders>>

\* h.WithGroup(name)
WithGroup(hi, name0) ==
    /\ LET h    == handlers[hi]
           name == TrimSpace(name0)
           g    == WithGroupGroups(h, name)
       IN  /\ handlers' = Append(handlers,
                 Handler(WithGroupPrefix(h, name), g.s, h.context, h.headers,
                         [parent |-> hi, given |-> <<>>, path |-> Append(h.path, name),
                          own |-> <<>>, want |-> h.want, slots |-> h.slots]))
           /\ garrs' = g.heap
    /\ UNCHANGED <<opts, carrs, harrs, pool, procs, sink, nrenders>>

\* h.Handle(ctx, rec) by caller p, from newEncoder to the line terminator: the
\* three sections are built in the encoder the pool handed out (choice i).
\* enc, hd and e are bound to one value each.
HandleStart(p, hi, rec, i) ==
    /\ procs[p].pc = "idle"
    /\ \E enc \in {HandleEncode(handlers[hi], rec, PoolGet(i))} :
       \E hd \in {HeaderElems(enc.e, enc.heap, enc.ref)} :
       \E e \in {HandleSections(enc.e, hd, enc.headerLen)} :
           /\ procs' = [procs EXCEPT ![p] =
                 [pc |-> "header", r |-> nrenders + 1, h |-> hi, rec |-> rec,
                  e |-> e,
                  parts |-> [time |-> enc.time, level |-> enc.level,
                             source |-> enc.source, slots |-> hd,
                             headers |-> Flatten(writeHeaders(enc.e, hd).out)],
                  res |-> "none"]]
           /\ harrs' = enc.heap
    /\ pool' = PoolRest(i)
    /\ nrenders' = nrenders + 1
    /\ UNCHANGED <<opts, handlers, garrs, carrs, sink>>

\* the trailer flushed before the body
SectionTrailerFirst(e, pc) ==
    CASE pc = "header"  -> [bytes |-> e.headerBuf, next |-> "trailer"]
      [] pc = "trailer" -> [bytes |-> e.trailerBuf, next |-> "middle"]
      [] pc = "middle"  -> [bytes |-> e.middleBuf, next |-> "free"]

\* The section Handle flushes at pc, and the pc after it.
Section(e, pc) ==
    CASE pc = "header"  -> [bytes |-> e.headerBuf, next |-> "middle"]
      [] pc = "middle"  -> [bytes |-> e.middleBuf, next |-> "trailer"]
      [] pc = "trailer" -> [bytes |-> e.trailerBuf, next |-> "free"]

\* a failed write puts the encoder back as it is
HandleWritePutBack(p, ok) ==
    /\ procs[p].pc \in {"header", "middle", "trailer"}
    /\ LET q   == procs[p]
           sec == Section(q.e, q.pc)
       IN  IF sec.bytes = <<>>
           THEN /\ ok
                /\ procs' = [procs EXCEPT ![p].pc = sec.next]
                /\ sink' = sink
                /\ pool' = pool
           ELSE IF ok
           THEN /\ procs' = [procs EXCEPT ![p].pc = sec.next]
                /\ sink' = Append(sink, [r |-> q.r, h |-> q.h, rec |-> q.rec,
                                         sec |-> q.pc, bytes |-> sec.bytes])
                /\ pool' = pool
           ELSE /\ procs' = [procs EXCEPT ![p] = Idle("err")]
                /\ sink' = sink
                /\ pool' = Append(pool, q.e)
    /\ UNCHANGED <<opts, handlers, garrs, carrs, harrs, nrenders>>

\* buf.WriteTo(h.out) of one section: an empty section is not written; a write
\* that fails makes Handle return the error at once, the encoder not freed.
HandleWrite(p, ok) ==
    /\ procs[p].pc \in {"header", "middle", "trailer"}
    /\ LET q   == procs[p]
           sec == Section(q.e, q.pc)
       IN  IF sec.bytes = <<>>
           THEN /\ ok
                /\ procs' = [procs EXCEPT ![p].pc = sec.next]
                /\ sink' = sink
           ELSE IF ok
           THEN /\ procs' = [procs EXCEPT ![p].pc = sec.next]
                /\ sink' = Append(sink, [r |-> q.r, h |-> q.h, rec |-> q.rec,
                                         sec |-> q.pc, bytes |-> sec.bytes])
           ELSE /\ procs' = [procs EXCEPT ![p] = Idle("err")]
                /\ sink' = sink
    /\ UNCHANGED <<opts, handlers, garrs, carrs, harrs, pool, nrenders>>

\* enc.free(); return nil
HandleFree(p) ==
    /\ procs[p].pc = "free"
    /\ pool' = Append(pool, free(procs[p].e))
    /\ procs' = [procs EXCEPT ![p] = Idle("nil")]
    /\ UNCHANGED <<opts, handlers, garrs, carrs, harrs, sink, nrenders>>

\* Derivations and renders of a lineage; every caller calls Handle once, so
\* that the two calls run one after the other or concurrently.
Next ==
    \/ \E hi \in DOMAIN handlers, as \in RenderAttrLists, i \in 0..Len(pool) :
          Len(handlers) < MaxHandlers /\ WithAttrs(hi, as, i)
    \/ \E hi \in DOMAIN handlers, name \in RenderGroupNames :
          Len(handlers) < MaxHandlers /\ WithGroup(hi, name)
    \/ \E p \in Procs, hi \in DOMAIN handlers, rec \in Events, i \in 0..Len(pool) :
          /\ procs[p].res = "none"
          /\ \A q \in Procs : q < p => procs[q].r # 0 \/ procs[q].res # "none"
          /\ HandleStart(p, hi, rec, i)
    \/ \E p \in Procs, ok \in BOOLEAN : HandleWrite(p, ok)
    \/ \E p \in Procs : HandleFree(p)

Spec == Init /\ [][Next]_vars

\* The derivations of a longer lineage.
NextDerive ==
    \/ \E hi \in DOMAIN handlers, as \in AttrLists, i \in 0..Len(pool) :
          Len(handlers) < MaxLineage /\ WithAttrs(hi, as, i)
    \/ \E hi \in DOMAIN handlers, name \in RenderGroupNames :
          Len(handlers) < MaxLineage /\ WithGroup(hi, name)

SpecDerive == Init /\ [][NextDerive]_vars

\* Chains of WithGroup derivations.
NextGroups ==
    \E hi \in DOMAIN handlers, name \in GroupNames :
        Len(handlers) < MaxChain /\ WithGroup(hi, name)

SpecGroups == Init /\ [][NextGroups]_vars

-----------------------------------------------------------------------------
(* Structured attributes: groups, empty attributes, values of several lines *)

kA == <<"a">>
kB == <<"b">>
\* a second value whose rendering spans two lines
sML2 == StringValue(<<"c", "\n", "d">>)
\* a LogValuer whose LogValue returns slog.Value{}
vLazyNil == ValuerValue(NilValue)

AttrConfigs ==
    { Opt(<<>>, NoHook, FALSE, TRUE),
      Opt(<<kFoo>>, IdentHook, TRUE, TRUE),
      Opt(<<>>, ReplaceHook(kK, EmptyAttr), TRUE, FALSE),
      Opt(<<kFoo>>, KeyValHook, FALSE, TRUE) }

\* The attribute lists given to WithAttrs
TreeLists ==
    { <<Attr(kK, sX), EmptyAttr,
        Attr(kA, GroupValue(<<Attr(kFoo, sY), Attr(<<>>, GroupValue(<<Attr(kBar, sZ)>>))>>))>>,
      <<Attr(kFoo, sX), Attr(kA, GroupValue(<<>>)), Attr(kBar, sML)>> }

\* The records given to Handle
TreeEvents ==
    { Rec(1, 0, 1, <<Attr(kFoo, sX), EmptyAttr, Attr(<<>>, vLazyNil), Attr(kK, sY)>>),
      Rec(1, 4, 1, <<Attr(kA, GroupValue(<<Attr(kK, sX), EmptyAttr,
                                           Attr(kB, GroupValue(<<Attr(kBar, sY), Attr(kK, sZ)>>))>>)),
                     Attr(kBar, sZ)>>),
      Rec(1, 0, 0, <<Attr(kA, GroupValue(<<>>)),
                     Attr(kA, GroupValue(<<EmptyAttr, Attr(kB, GroupValue(<<>>))>>)),
                     Attr(kB, GroupValue(<<Attr(kK, sX)>>))>>),
      Rec(1, 0, 0, <<Attr(<<>>, GroupValue(<<Attr(kBar, sX), Attr(kK, sY)>>)), Attr(kBar, sZ)>>),
      Rec(0, 8, 1, <<Attr(kA, GroupValue(<<Attr(<<>>, GroupValue(<<Attr(kBar, sX)>>)),
                                           Attr(kK, sY)>>))>>),
      Rec(1, 0, 0, <<Attr(kK, sML), Attr(kBar, sX),
                     Attr(kA, GroupValue(<<Attr(kBar, sML2), Attr(kK, sZ)>>)),
                     Attr(kBar, sY)>>) }

\* SpecAttrs: the Handlers of the lineage, the root included.
MaxAttrHandlers == 2

InitAttrs == InitWith(AttrConfigs)

\* One derivation at most, then one call of Handle by one caller.
NextAttrs ==
    \/ \E hi \in DOMAIN handlers, as \in TreeLists, i \in 0..Len(pool) :
          Len(handlers) < MaxAttrHandlers /\ WithAttrs(hi, as, i)
    \/ \E hi \in DOMAIN handlers, name \in RenderGroupNames :
          Len(handlers) < MaxAttrHandlers /\ WithGroup(hi, name)
    \/ \E hi \in DOMAIN handlers, rec \in TreeEvents, i \in 0..Len(pool) :
          procs[1].res = "none" /\ HandleStart(1, hi, rec, i)
    \/ \E ok \in BOOLEAN : HandleWrite(1, ok)
    \/ HandleFree(1)

SpecAttrs == InitAttrs /\ [][NextAttrs]_vars

-----------------------------------------------------------------------------
(* Levels *)

\* SpecLevels: how far below slog.LevelDebug and above slog.LevelError the
\* levels of the records reach.
LevelSpan == 5

\* slog.LevelDebug, LevelInfo, LevelWarn, LevelError
Anchors == {-4, 0, 4, 8}

Levels == (-4 - LevelSpan)..(8 + LevelSpan)

LevelConfigs ==
    { Opt(<<>>, NoHook, FALSE, TRUE),
      Opt(<<>>, IdentHook, FALSE, FALSE),
      Opt(<<kFoo>>, NoHook, TRUE, FALSE) }

\* The records given to Handle
LevelEvents == { Rec(1, l, 0, <<>>) : l \in Levels }

InitLevels == InitWith(LevelConfigs)

\* One call of Handle on the Handler NewHandler returned.
NextLevels ==
    \/ \E rec \in LevelEvents, i \in 0..Len(pool) :
          procs[1].res = "none" /\ HandleStart(1, 1, rec, i)
    \/ \E ok \in BOOLEAN : HandleWrite(1, ok)
    \/ HandleFree(1)

SpecLevels == InitLevels /\ [][NextLevels]_vars

-----------------------------------------------------------------------------
(* Built-in fields cleared by the hook *)

\* replaceAttrWith(key, slog.Any(key, nil)) for each of the built-in keys
FieldConfigs ==
    { Opt(hd, ReplaceHook(key, Attr(key, NilValue)), TRUE, TRUE) :
        hd \in {<<>>, <<kFoo>>},
        key \in {TimeKey, LevelKey, SourceKey, MessageKey} }
    \cup { Opt(<<kFoo>>, ReplaceHook(MessageKey, EmptyAttr), FALSE, FALSE) }

\* The records given to Handle
FieldEvents ==
    { Rec(1, 0, 1, <<Attr(kFoo, sX), Attr(kK, sZ)>>),
      Rec(1, 4, 1, <<>>),
      Rec(0, 8, 0, <<Attr(kK, sML)>>),
      Rec(1, -4, 1, <<Attr(kBar, sY)>>) }

\* SpecFields: the Handlers of the lineage, the root included.
MaxFieldHandlers == 2

InitFields == InitWith(FieldConfigs)

\* One derivation at most, then one call of Handle by one caller.
NextFields ==
    \/ \E hi \in DOMAIN handlers, as \in RenderAttrLists, i \in 0..Len(pool) :
          Len(handlers) < MaxFieldHandlers /\ WithAttrs(hi, as, i)
    \/ \E hi \in DOMAIN handlers, name \in RenderGroupNames :
          Len(handlers) < MaxFieldHandlers /\ WithGroup(hi, name)
    \/ \E hi \in DOMAIN handlers, rec \in FieldEvents, i \in 0..Len(pool) :
          procs[1].res = "none" /\ HandleStart(1, hi, rec, i)
    \/ \E ok \in BOOLEAN : HandleWrite(1, ok)
    \/ HandleFree(1)

SpecFields == InitFields /\ [][NextFields]_vars

-----------------------------------------------------------------------------
(* Derivation: WithAttrs, WithGroup *)

\* The bytes of h.context
Context(h) == SliceElems(carrs, h.context)

RECURSIVE Lineage(_)
\* A Handler and the Handlers it descends from.
Lineage(i) == IF i = 0 THEN {} ELSE {i} \cup Lineage(handlers[i].parent)

\* C1: the bound bytes of a derived Logger are its parent's bound bytes followed
\* by the bytes of its own WithAttrs, whatever its siblings were given, and its
\* renders carry exactly these bytes behind the message: no append of one
\* derivation lands in storage another Logger's context reaches.
C1_NoCrossContamination ==
    \A i \in DOMAIN handlers :
        i > 1 =>
            LET h == handlers[i]
                p == handlers[h.parent]
            IN  /\ Context(h) = p.want \o h.own
                /\ \A rec \in Events :
                      LET e == HandleOut(h, rec)
                          m == Flatten(writeMessage(e, rec.level, rec.msg).out)
                      IN  IsPrefix(m \o p.want \o h.own, e.middleBuf)

\* Two Loggers derived with WithAttrs from one derived Logger, all three with
\* bound bytes of their own, the siblings' differing.
C1_Witness ==
    \E a, b \in DOMAIN handlers :
        /\ a < b
        /\ handlers[a].parent = handlers[b].parent
        /\ handlers[a].parent > 1
        /\ handlers[handlers[a].parent].own # <<>>
        /\ handlers[a].own # <<>>
        /\ handlers[b].own # <<>>
        /\ handlers[a].own # handlers[b].own

\* C2: a derivation leaves every Logger that exists unchanged: its fields (the
\* group prefix among them), the bytes of its context and the values of its
\* header slots, which are what a render of it reads, are after the step what
\* they were before.
C2_SourceUnchanged ==
    [][\A i \in DOMAIN handlers :
          /\ handlers'[i] = handlers[i]
          /\ SliceElems(carrs', handlers[i].context) = Context(handlers[i])
          /\ harrs'[handlers[i].headers] = harrs[handlers[i].headers]]_vars

\* A derived Logger with bound body bytes and a bound header value, from which a
\* WithAttrs that supplies the same header key again and a WithGroup were made.
C2_Witness ==
    \E p, a, b \in DOMAIN handlers :
        /\ p > 1
        /\ handlers[a].parent = p
        /\ handlers[b].parent = p
        /\ handlers[p].own # <<>>
        /\ \E i \in DOMAIN opts.Headers :
              /\ ~IsEmptyAttr(handlers[p].slots[i])
              /\ handlers[a].slots[i] # handlers[p].slots[i]
        /\ handlers[b].path # handlers[p].path

\* C3: the group chain the hook is handed during a render of a Logger is the
\* sequence of names of the WithGroup derivations on the Logger's own path,
\* whatever WithGroup derivations were made from its parent or siblings since.
C3_GroupChain ==
    \A i \in DOMAIN handlers :
        /\ HasHook => newEncoder(NewEncoder, handlers[i]).groups = handlers[i].path
        /\ \A rec \in Events :
              \A c \in Range(HandleOut(handlers[i], rec).calls) :
                  c.site = "attr" => c.groups = handlers[i].path

\* C5: the bytes bound by the WithAttrs of every Logger a Logger descends from
\* are in each of its renders; the header slots of a render are those bound
\* along the path, each replaced only by a later derivation or by the event
\* supplying the same key; and a bound value is shown as the hook leaves it.
C5_BoundValuesPersist ==
    \A i \in DOMAIN handlers :
        \A rec \in Events :
            LET h   == handlers[i]
                enc == HandleEncode(h, rec, NewEncoder)
                hd  == HeaderElems(enc.e, enc.heap, enc.ref)
                e   == HandleSections(enc.e, hd, enc.headerLen)
            IN  /\ \A a \in Lineage(i) :
                      /\ Contains(e.middleBuf, handlers[a].own)
                      /\ IsPrefix(handlers[a].want, Context(h))
                /\ hd = Override(h.slots, rec.attrs)
                /\ \A k \in DOMAIN hd :
                      ~HasHook /\ ~IsNilValue(hd[k].val)
                          => Contains(e.headerBuf, ValueString(hd[k].val) \o <<" ">>)

\* A Logger derived by WithAttrs from a WithGroup derivation of a Logger that
\* bound body bytes and a header value: it still holds that header value.
C5_Witness ==
    \E i \in DOMAIN handlers :
        LET h == handlers[i]
        IN  /\ h.parent > 1
            /\ handlers[h.parent].parent > 1
            /\ h.path # <<>>
            /\ h.given # <<>>
            /\ LET a == handlers[handlers[h.parent].parent]
               IN  /\ a.own # <<>>
                   /\ \E k \in DOMAIN opts.Headers :
                         /\ ~IsEmptyAttr(a.slots[k])
                         /\ h.slots[k] = a.slots[k]

-----------------------------------------------------------------------------
(* Rendering: Handle *)

\* The callers inside Handle, their sections built.
Active == {p \in Procs : procs[p].pc # "idle"}

\* The line a caller's Handle has built, section after section.
Line(p) == procs[p].e.headerBuf \o procs[p].e.middleBuf \o procs[p].e.trailerBuf

\* How often tok occurs in hay.
Count(hay, tok) ==
    Cardinality({i \in 0..(Len(hay) - Len(tok)) :
                    \A j \in 1..Len(tok) : hay[i + j] = tok[j]})

\* The divider token
Divider == <<">", " ">>

\* C4: a render shows in every header slot the value the event supplies for the
\* slot's key, or else the value the Logger inherited; and no render changes the
\* header slots a Logger stores, so that a render without the attribute, later
\* or at the same time, shows the inherited value.
C4_HeaderOverrideLocal ==
    /\ \A i \in DOMAIN handlers : harrs[handlers[i].headers] = handlers[i].slots
    /\ \A p \in Active :
          LET q == procs[p]
          IN  /\ q.parts.slots = Override(handlers[q.h].slots, q.rec.attrs)
              /\ \A k \in DOMAIN q.parts.slots :
                    ~HasHook /\ ~IsNilValue(q.parts.slots[k].val)
                        => Contains(q.e.headerBuf,
                                    ValueString(q.parts.slots[k].val) \o <<" ">>)

\* Two renders of one Logger in progress: the earlier overrides an inherited
\* header value, the later does not supply the key and shows the inherited one.
C4_Witness ==
    \E p, q \in Active :
        /\ procs[p].h = procs[q].h
        /\ procs[p].r < procs[q].r
        /\ \E k \in DOMAIN opts.Headers :
              LET inh == handlers[procs[p].h].slots[k]
              IN  /\ ~IsEmptyAttr(inh)
                  /\ procs[p].parts.slots[k] # inh
                  /\ procs[q].parts.slots[k] = inh
                  /\ Contains(procs[q].e.headerBuf, ValueString(inh.val) \o <<" ">>)

RECURSIVE HeaderZone(_)
\* The header zone of a list of slots, slot by slot in the order of the
\* configured keys: nothing for a slot that holds no value; for a slot that holds
\* one, the value as the hook leaves it, styled, and one space, or nothing if
\* the hook elides it.
HeaderZone(slots) ==
    IF slots = <<>> THEN <<>>
    ELSE LET a0 == Head(slots)
             a  == IF a0.val.kind # "Group" /\ HasHook
                   THEN ReplaceAttr(<<>>, a0) ELSE a0
             v  == Resolve(a.val)
         IN  (IF IsEmptyAttr(a0) \/ IsNilValue(v) THEN <<>>
              ELSE Flatten(writeColoredValue(v, ThemeStyle("s"))) \o <<" ">>)
             \o HeaderZone(Tail(slots))

\* C6: the bytes the header slots contribute to a render are the values of the
\* non-elided slots in the order of the configured keys, each followed by one
\* space, a slot that holds no value contributing nothing; they stand behind
\* the timestamp, level and source.
C6_HeaderZone ==
    \A p \in Active :
        LET q == procs[p]
        IN  /\ q.parts.headers = HeaderZone(q.parts.slots)
            /\ IsPrefix(q.parts.time \o q.parts.level \o q.parts.source
                           \o HeaderZone(q.parts.slots), q.e.headerBuf)

\* C7: a render by a Logger configured with an empty header key list contains
\* no divider token.
C7_NoHeaderKeysNoDivider ==
    \A p \in Active : opts.Headers = <<>> => Count(Line(p), Divider) = 0

\* C7, amended: a render by a Logger configured with an empty header key list
\* contains the divider token once, at the end of the header section, if the
\* source field was written, and not at all otherwise.
C7_NoHeaderKeysDividerIffSource ==
    \A p \in Active :
        opts.Headers = <<>> =>
            LET q == procs[p]
            IN  /\ q.parts.headers = <<>>
                /\ Count(Line(p), Divider) = (IF q.parts.source # <<>> THEN 1 ELSE 0)
                /\ q.parts.source # <<>> =>
                      q.e.headerBuf = q.parts.time \o q.parts.level \o q.parts.source
                                        \o Flatten(writeHeaderSeparator)

\* Two renders without header keys, one with the source field and one without.
C7_Witness ==
    \E p, q \in Active :
        /\ opts.Headers = <<>>
        /\ procs[p].parts.source # <<>>
        /\ procs[q].parts.source = <<>>

\* C8: a render contains the divider token once, at the end of the header
\* section, if the source field or a header slot's value was written behind the
\* timestamp and level, and not at all otherwise.
C8_DividerIffHeaderZone ==
    \A p \in Active :
        LET q     == procs[p]
            wrote == q.parts.source # <<>> \/ q.parts.headers # <<>>
        IN  /\ Count(Line(p), Divider) = (IF wrote THEN 1 ELSE 0)
            /\ q.e.headerBuf =
                  q.parts.time \o q.parts.level \o q.parts.source \o q.parts.headers
                  \o (IF wrote THEN Flatten(writeHeaderSeparator) ELSE <<>>)

\* Two renders without a source field, one with a header value and one without.
C8_Witness ==
    \E p, q \in Active :
        /\ procs[p].parts.source = <<>>
        /\ procs[p].parts.headers # <<>>
        /\ procs[q].parts.source = <<>>
        /\ procs[q].parts.headers = <<>>
        /\ Count(Line(p), Divider) = 1
        /\ Count(Line(q), Divider) = 0

\* C9: a render of an event with the zero time writes no timestamp field and no
\* separator for it (the header section starts with the level), and the hook is
\* not invoked for the timestamp nor with the time key.
C9_ZeroTimeSkipped ==
    \A p \in Active :
        procs[p].rec.time = 0 =>
            LET q == procs[p]
            IN  /\ q.parts.time = <<>>
                /\ IsPrefix(q.parts.level, q.e.headerBuf)
                /\ \A c \in Range(q.e.calls) : c.site # "time" /\ c.key # TimeKey

\* A render of an event with the zero time by a Logger with a hook, which the
\* render invoked for other fields.
C9_Witness ==
    \E p \in Active :
        /\ procs[p].rec.time = 0
        /\ HasHook
        /\ procs[p].e.calls # <<>>
        /\ procs[p].parts.level # <<>>

\* The hook's invocations for the source field during a caller's Handle.
SourceCalls(p) == {i \in DOMAIN procs[p].e.calls : procs[p].e.calls[i].site = "source"}

\* C10: a render of an event with a zero pc writes no source field and does not
\* invoke the hook for the source key.
C10_ZeroPcSkipped ==
    \A p \in Active :
        procs[p].rec.pc = 0 =>
            procs[p].parts.source = <<>> /\ SourceCalls(p) = {}

\* C10, amended: a render of an event with a zero pc writes no source field if
\* source reporting is off or no hook is configured; with source reporting on
\* and a hook configured, the hook is invoked once for the source key, with an
\* empty source, and the field is what the hook returns: nothing for the elision
\* marker or a source without file and line, the value otherwise.
C10_ZeroPcHookDecides ==
    \A p \in Active :
        procs[p].rec.pc = 0 =>
            LET q == procs[p]
                a == ReplaceAttr(<<>>, Attr(SourceKey, SourceValue(<<>>, 0)))
                v == Resolve(a.val)
            IN  IF opts.AddSource /\ HasHook
                THEN /\ Cardinality(SourceCalls(p)) = 1
                     /\ \A i \in SourceCalls(p) : q.e.calls[i].key = SourceKey
                     /\ q.parts.source =
                           (IF IsNilValue(v) \/ v.kind = "NilSource"
                               \/ (v.kind = "Source" /\ v.str = <<>> /\ v.n = 0)
                            THEN <<>>
                            ELSE IF v.kind = "Source"
                            THEN Flatten(writeSourceField(v.str, v.n))
                            ELSE Flatten(writeColoredValue(v, ThemeStyle("t"))) \o <<" ">>)
                ELSE q.parts.source = <<>> /\ SourceCalls(p) = {}

\* A render of an event with a zero pc by a Logger with a hook: the hook was
\* invoked for the source, and the field is the value it returned.
C10_Witness ==
    \E p \in Active :
        /\ procs[p].rec.pc = 0
        /\ opts.AddSource
        /\ HasHook
        /\ SourceCalls(p) # {}
        /\ procs[p].parts.source # <<>>

-----------------------------------------------------------------------------
(* Attributes: empty attributes, groups *)

\* a is the empty attribute as it was given (once resolved), or the hook
\* returns the empty attribute for it.
Elided(a) ==
    LET v == Resolve(a.val)
        b == ReplaceAttr(<<>>, [a EXCEPT !.val = v])
    IN  \/ a.key = <<>> /\ v.kind = "Any"
        \/ /\ HasHook /\ v.kind # "Group"
           /\ b.key = <<>> /\ Resolve(b.val).kind = "Any"

RECURSIVE WithoutElided(_)
\* The attributes of as without the elided ones, at every depth.
WithoutElided(as) ==
    IF as = <<>> THEN <<>>
    ELSE LET a == Head(as)
             v == Resolve(a.val)
         IN  IF Elided(a) THEN WithoutElided(Tail(as))
             ELSE IF v.kind = "Group"
             THEN <<Attr(a.key, GroupValue(WithoutElided(v.sub)))>> \o WithoutElided(Tail(as))
             ELSE <<a>> \o WithoutElided(Tail(as))

\* The bytes WithAttrs(attrs) appends to the context of a Logger derived from h.
BoundBytes(h, attrs) ==
    Flatten(writeAttrList(newEncoder(NewEncoder, h), attrs, h.groupPrefix).out)

\* C11: an empty attribute (empty key, empty value) brings no byte of output,
\* whether it was given on the event, in a group or to WithAttrs, or returned
\* by the hook, whatever hook is configured and at every depth: the line and the
\* bound context are those of the same attributes without the empty ones.
C11_ElidedZeroBytes ==
    /\ \A p \in Active :
          Line(p) = HandleLine(handlers[procs[p].h],
                               [procs[p].rec EXCEPT !.attrs = WithoutElided(@)])
    /\ \A i \in DOMAIN handlers :
          handlers[i].given # <<>> =>
              LET h == handlers[handlers[i].parent]
              IN  handlers[i].own =
                      BoundBytes(h, WithoutElided(extractHeaders(h, handlers[i].given).attrs))

\* writeAttr writes nothing for the non-group attribute a: resolved and handed
\* to the hook, if there is one, it is the empty attribute.
ElidedLeaf(a) ==
    LET r == [a EXCEPT !.val = Resolve(a.val)]
        b == IF HasHook THEN ReplaceAttr(<<>>, r) ELSE r
    IN  b.key = <<>> /\ Resolve(b.val).kind = "Any"

RECURSIVE Hollow(_)
\* Every attribute of as is an elided leaf or a group of such attributes; a
\* list of no attributes is hollow.
Hollow(as) ==
    \A i \in DOMAIN as :
        LET v == Resolve(as[i].val)
        IN  IF v.kind = "Group" THEN Hollow(v.sub) ELSE ElidedLeaf(as[i])

RECURSIVE WithoutHollow(_)
\* The attributes of as without the hollow groups, at every depth.
WithoutHollow(as) ==
    IF as = <<>> THEN <<>>
    ELSE LET a == Head(as)
             v == Resolve(a.val)
         IN  IF v.kind # "Group" THEN <<a>> \o WithoutHollow(Tail(as))
             ELSE IF Hollow(v.sub) THEN WithoutHollow(Tail(as))
             ELSE <<Attr(a.key, GroupValue(WithoutHollow(v.sub)))>>
                  \o WithoutHollow(Tail(as))

\* as holds, at some depth, a hollow group that has children.
RECURSIVE HasHollow(_)
HasHollow(as) ==
    \E i \in DOMAIN as :
        LET v == Resolve(as[i].val)
        IN  v.kind = "Group" /\ ((v.sub # <<>> /\ Hollow(v.sub)) \/ HasHollow(v.sub))

\* C12: a group without children, or whose descendants are all elided, brings
\* no byte of output, no key prefix and no separator, at every depth and under
\* every group prefix of the Logger: the line and the bound context are those
\* of the same attributes without such groups.
C12_HollowGroupZeroBytes ==
    /\ \A p \in Active :
          Line(p) = HandleLine(handlers[procs[p].h],
                               [procs[p].rec EXCEPT !.attrs = WithoutHollow(@)])
    /\ \A i \in DOMAIN handlers :
          handlers[i].given # <<>> =>
              LET h == handlers[handlers[i].parent]
                  x == extractHeaders(h, handlers[i].given).attrs
              IN  handlers[i].own = BoundBytes(h, WithoutHollow(x))

\* A Logger derived with WithGroup has rendered, with a hook configured, an
\* event that carries a group with children which are all elided, and the line
\* went to the sink.
C12_Witness ==
    \E p \in Active :
        /\ procs[p].pc = "free"
        /\ HasHook
        /\ handlers[procs[p].h].groupPrefix # <<>>
        /\ HasHollow(procs[p].rec.attrs)
        /\ \E i \in DOMAIN procs[p].rec.attrs :
              procs[p].rec.attrs[i].val.kind = "Group"
              /\ procs[p].rec.attrs[i].val.sub = <<>>

RECURSIVE Inline(_)
\* The attributes of as with every group of empty key replaced by its children,
\* at every depth.
Inline(as) ==
    IF as = <<>> THEN <<>>
    ELSE LET a == Head(as)
             v == Resolve(a.val)
         IN  IF v.kind # "Group" THEN <<a>> \o Inline(Tail(as))
             ELSE IF a.key = <<>> THEN Inline(v.sub) \o Inline(Tail(as))
             ELSE <<Attr(a.key, GroupValue(Inline(v.sub)))>> \o Inline(Tail(as))

\* C13: a group with an empty key renders its descendants byte for byte as if
\* they had been given in the place of the group, whatever encloses it: the top
\* level, a named group, or the prefix of a Logger derived with WithGroup.
C13_InlineGroup ==
    /\ \A p \in Active :
          Line(p) = HandleLine(handlers[procs[p].h],
                               [procs[p].rec EXCEPT !.attrs = Inline(@)])
    /\ \A i \in DOMAIN handlers :
          handlers[i].given # <<>> =>
              LET h == handlers[handlers[i].parent]
                  x == extractHeaders(h, handlers[i].given).attrs
              IN  handlers[i].own = BoundBytes(h, Inline(x))

-----------------------------------------------------------------------------
(* Handle: attributes of several lines, the line terminator *)

\* The bytes writeAttr appends for the attribute a of an event given to h.
AttrSpan(h, a) ==
    Flatten(writeAttr(newEncoder(NewEncoder, h), a, h.groupPrefix).out)

RECURSIVE Spans(_, _, _)
\* The spans of the attributes of as that are no header attributes, one after
\* the other: those with a line break if multi, those without if not.
Spans(h, as, multi) ==
    IF as = <<>> THEN <<>>
    ELSE LET a    == Head(as)
             span == AttrSpan(h, a)
         IN  (IF HeaderIndex(a.key) = 0 /\ (("\n" \in Range(span)) <=> multi)
              THEN span ELSE <<>>)
             \o Spans(h, Tail(as), multi)

\* s ends with t
IsSuffix(t, s) ==
    Len(t) <= Len(s) /\ SubSeq(s, Len(s) - Len(t) + 1, Len(s)) = t

\* C14: the span of every attribute of the event whose rendering holds a line
\* break is absent from the body and byte for byte in the trailer, the carved
\* spans in their order; the spans without line break are in the body, in
\* their order.
C14_MultilineCarved ==
    \A p \in Active :
        LET q      == procs[p]
            h      == handlers[q.h]
            carved == Spans(h, q.rec.attrs, TRUE)
            kept   == Spans(h, q.rec.attrs, FALSE)
        IN  /\ q.e.trailerBuf = IF carved = <<>> THEN <<>> ELSE carved \o <<"\n">>
            /\ IsSuffix(kept \o (IF carved = <<>> THEN <<"\n">> ELSE <<>>), q.e.middleBuf)
            /\ \A i \in DOMAIN q.rec.attrs :
                  LET span == AttrSpan(h, q.rec.attrs[i])
                  IN  HeaderIndex(q.rec.attrs[i].key) = 0 /\ "\n" \in Range(span)
                          => ~Contains(q.e.middleBuf, span)

\* A render that went to the sink carved two attributes, one of them a group,
\* with an attribute of one line between them and one after them.
C14_Witness ==
    \E p \in Active :
        LET as == procs[p].rec.attrs
            h  == handlers[procs[p].h]
            ml(i) == "\n" \in Range(AttrSpan(h, as[i]))
        IN  /\ procs[p].pc = "free"
            /\ \E i, j, k, l \in DOMAIN as :
                  /\ i < j /\ j < k /\ k < l
                  /\ ml(i) /\ ~ml(j) /\ ml(k) /\ ~ml(l)
                  /\ AttrSpan(h, as[j]) # <<>> /\ AttrSpan(h, as[l]) # <<>>
                  /\ as[k].val.kind = "Group"

\* The body Handle(h, rec) builds before the terminator: the message, the
\* context of h and the spans of the event's attributes without line break.
BodyOf(h, rec) ==
    Flatten(writeMessage(newEncoder(NewEncoder, h), rec.level, rec.msg).out)
    \o Context(h) \o Spans(h, rec.attrs, FALSE)

\* What render r wrote to the sink, in order.
Written(r) == SelectSeq(sink, LAMBDA w : w.r = r)

RECURSIVE Bytes(_)
\* The bytes of a sequence of writes.
Bytes(ws) == IF ws = <<>> THEN <<>> ELSE Head(ws).bytes \o Bytes(Tail(ws))

\* C15: a render appends one line terminator, to the body when the trailer is
\* empty and to the trailer otherwise, no section receives a second one, and
\* when the render succeeds the terminator is the last byte it wrote to the
\* sink.
C15_OneTerminator ==
    \A p \in Active :
        LET q      == procs[p]
            h      == handlers[q.h]
            body   == BodyOf(h, q.rec)
            carved == Spans(h, q.rec.attrs, TRUE)
        IN  /\ carved = <<>> =>
                  q.e.middleBuf = body \o <<"\n">> /\ q.e.trailerBuf = <<>>
            /\ carved # <<>> =>
                  q.e.middleBuf = body /\ q.e.trailerBuf = carved \o <<"\n">>
            /\ "\n" \notin Range(q.e.headerBuf)
            /\ q.pc = "free" =>
                  /\ Bytes(Written(q.r)) = Line(p)
                  /\ Written(q.r)[Len(Written(q.r))].bytes
                        [Len(Written(q.r)[Len(Written(q.r))].bytes)] = "\n"

\* A render with a carved attribute went to the sink whole: the body was
\* written without terminator and the trailer, written last, ends with it.
C15_Witness ==
    \E p \in Active :
        LET w == Written(procs[p].r)
        IN  /\ procs[p].pc = "free"
            /\ procs[p].e.trailerBuf # <<>>
            /\ Len(w) = 3
            /\ w[2].sec = "middle" /\ w[2].bytes[Len(w[2].bytes)] # "\n"
            /\ w[3].sec = "trailer" /\ w[3].bytes[Len(w[3].bytes)] = "\n"

-----------------------------------------------------------------------------
(* Levels *)

\* The greatest anchor not above l, the lowest anchor for a level below it.
AnchorBelow(l) ==
    IF \A a \in Anchors : l < a
    THEN CHOOSE a \in Anchors : \A b \in Anchors : a <= b
    ELSE CHOOSE a \in Anchors : a <= l /\ \A b \in Anchors : b <= l => b <= a

\* The three-letter code of an anchor, and the style the theme has for it.
AnchorCode(a) ==
    CASE a = -4 -> <<"D", "B", "G">>
      [] a = 0  -> <<"I", "N", "F">>
      [] a = 4  -> <<"W", "R", "N">>
      [] a = 8  -> <<"E", "R", "R">>
AnchorStyle(a) ==
    CASE a = -4 -> ThemeStyle("d")
      [] a = 0  -> ThemeStyle("i")
      [] a = 4  -> ThemeStyle("w")
      [] a = 8  -> ThemeStyle("e")

\* The sign and the decimal digits of an offset.
Offset(d) == (IF d < 0 THEN <<"-">> ELSE <<"+">>) \o UDec(IF d < 0 THEN 0 - d ELSE d)

\* The level field that names anchor a for level l, and the space behind it.
LevelField(a, l) ==
    Flatten(withColor(AnchorStyle(a),
                      <<AnchorCode(a) \o (IF l = a THEN <<>> ELSE Offset(l - a))>>))
    \o <<" ">>

\* C16: the level field is the code of the greatest anchor not above the level
\* (DBG=-4, INF=0, WRN=4, ERR=8), bare when the level is the anchor and followed
\* by the signed offset otherwise; a level below the lowest anchor renders as
\* DBG with a negative offset.
C16_LevelField ==
    \A p \in Active :
        LET l == procs[p].rec.level
        IN  /\ procs[p].parts.level = LevelField(AnchorBelow(l), l)
            /\ l < -4 => AnchorBelow(l) = -4 /\ l - AnchorBelow(l) < 0
            /\ IsPrefix(procs[p].parts.time \o procs[p].parts.level, procs[p].e.headerBuf)

\* A render of the level one below the lowest anchor went to the sink, its
\* level field DBG-1.
C16_Witness ==
    \E p \in Active :
        /\ procs[p].pc = "free"
        /\ procs[p].rec.level = -5
        /\ Contains(procs[p].e.headerBuf, <<"D", "B", "G", "-", "1", " ">>)

\* |n|
Abs(n) == IF n < 0 THEN 0 - n ELSE n

\* a is an anchor at the smallest distance from l
Nearest(a, l) == a \in Anchors /\ \A b \in Anchors : Abs(l - a) <= Abs(l - b)

\* C17: for a level off the anchors, the level field names the nearest anchor,
\* the one at the smallest absolute distance, followed by the signed offset
\* from that anchor.
C17_NearestAnchor ==
    \A p \in Active :
        LET l == procs[p].rec.level
        IN  l \notin Anchors =>
                \E a \in Anchors :
                    Nearest(a, l) /\ procs[p].parts.level = LevelField(a, l)

\* C17, amended: for a level off the anchors, the level field names the
\* greatest anchor not above the level, the lowest anchor for a level below all
\* of them, followed by the signed offset from that anchor; the offset is
\* negative only below the lowest anchor, and the anchor named is the nearest
\* one exactly when the level is below the lowest anchor, above the highest, or
\* at most two above the anchor.
C17_AnchorBelow ==
    \A p \in Active :
        LET l == procs[p].rec.level
            a == AnchorBelow(l)
        IN  l \notin Anchors =>
                /\ procs[p].parts.level = LevelField(a, l)
                /\ Contains(procs[p].parts.level,
                            AnchorCode(a) \o (IF l < a THEN <<"-">> ELSE <<"+">>))
                /\ l < a <=> l < -4
                /\ Nearest(a, l) <=> (l < -4 \/ l > 8 \/ l - a <= 2)

\* A render of level 3 went to the sink: its level field is INF+3, the nearest
\* anchor being WRN.
C17_Witness ==
    \E p \in Active :
        /\ procs[p].pc = "free"
        /\ procs[p].rec.level = 3
        /\ Nearest(4, 3) /\ ~Nearest(0, 3)
        /\ Contains(procs[p].e.headerBuf, <<"I", "N", "F", "+", "3", " ">>)

-----------------------------------------------------------------------------
(* Built-in fields and the hook *)

RECURSIVE SlotFields(_)
\* The header slots as written when the hook leaves them alone: the styled
\* value and a space for every slot that holds a value.
SlotFields(slots) ==
    IF slots = <<>> THEN <<>>
    ELSE (IF Head(slots).val.kind = "Any" THEN <<>>
          ELSE Flatten(writeColoredValue(Resolve(Head(slots).val), ThemeStyle("s")))
               \o <<" ">>)
         \o SlotFields(Tail(slots))

\* The fields of the line Handle(h, rec) writes when the hook leaves the
\* built-in fields alone, each with the separator behind it; rest is all that
\* follows the message.
Fields(h, rec) ==
    LET src    == CallersFrame(rec.pc)
        carved == Spans(h, rec.attrs, TRUE)
    IN  [time    |-> IF rec.time = 0 THEN <<>>
                     ELSE Flatten(withColor(ThemeStyle("t"), <<FormatTime(rec.time)>>))
                          \o <<" ">>,
         level   |-> LevelField(AnchorBelow(rec.level), rec.level),
         source  |-> IF opts.AddSource
                     THEN Flatten(writeSourceField(src.file, src.line)) ELSE <<>>,
         slots   |-> SlotFields(Override(h.slots, rec.attrs)),
         message |-> Flatten(writeColoredString(rec.msg,
                        IF rec.level < 0 THEN ThemeStyle("M") ELSE ThemeStyle("m"))),
         rest    |-> Context(h) \o Spans(h, rec.attrs, FALSE)
                     \o carved \o <<"\n">>]

\* The divider, written when a source field or a header slot precedes it.
DividerIf(zone) == IF zone # <<>> THEN Flatten(writeHeaderSeparator) ELSE <<>>

\* The hook returns an attribute without value for the built-in key.
Clears(key) ==
    /\ opts.ReplaceAttr.name = "replace"
    /\ opts.ReplaceAttr.key = key
    /\ opts.ReplaceAttr.out.val.kind = "Any"

\* s without the space it starts with, if it starts with one
DropSpace(s) == IF s # <<>> /\ Head(s) = " " THEN Tail(s) ELSE s

\* C18: when the hook returns the elision marker for the timestamp, the level,
\* the source or the message, the line is the unmodified line without that
\* field and the separator behind it, every other field with its bytes and in
\* its place.
C18_FieldAndSeparatorRemoved ==
    \A p \in Active :
        LET f   == Fields(handlers[procs[p].h], procs[p].rec)
            src == IF Clears(SourceKey) THEN <<>> ELSE f.source
        IN  Line(p) = (IF Clears(TimeKey) THEN <<>> ELSE f.time)
                      \o (IF Clears(LevelKey) THEN <<>> ELSE f.level)
                      \o src \o f.slots \o DividerIf(src \o f.slots)
                      \o (IF Clears(MessageKey) THEN DropSpace(f.rest)
                          ELSE f.message \o f.rest)

\* C18, amended: when the hook returns an attribute without value for the
\* timestamp, the level or the source, the line is the unmodified line without
\* that field and the space behind it, and without the divider when the source
\* is cleared and no header slot holds a value; when it does so for the
\* message, the line is the unmodified line without the bytes of the message,
\* the attributes keeping the space each of them starts with.  Every other
\* field keeps its bytes and its place.
C18_FieldRemoved ==
    \A p \in Active :
        LET f   == Fields(handlers[procs[p].h], procs[p].rec)
            src == IF Clears(SourceKey) THEN <<>> ELSE f.source
        IN  Line(p) = (IF Clears(TimeKey) THEN <<>> ELSE f.time)
                      \o (IF Clears(LevelKey) THEN <<>> ELSE f.level)
                      \o src \o f.slots \o DividerIf(src \o f.slots)
                      \o (IF Clears(MessageKey) THEN <<>> ELSE f.message)
                      \o f.rest

\* A render with the message cleared went to the sink: behind the divider stand
\* the two spaces of the cleared message and of the first attribute.
C18_Witness ==
    \E p \in Active :
        /\ procs[p].pc = "free"
        /\ Clears(MessageKey)
        /\ procs[p].rec.attrs # <<>>
        /\ Contains(Line(p), <<">", " ", " ">>)
        /\ ~Contains(Line(p), procs[p].rec.msg)

RECURSIVE Leaves(_, _)
\* The non-group attributes of as at every depth, in order, each with the
\* chain: the chain given, followed by the keys of the groups that enclose it.
Leaves(as, chain) ==
    IF as = <<>> THEN <<>>
    ELSE LET a == Head(as)
             v == Resolve(a.val)
         IN  (IF v.kind = "Group" THEN Leaves(v.sub, Append(chain, a.key))
              ELSE << [groups |-> chain, key |-> a.key] >>)
             \o Leaves(Tail(as), chain)

\* The built-in fields Handle(h, rec) hands to the hook, each with no chain.
BuiltIns(rec) ==
    (IF rec.time = 0 THEN <<>> ELSE << [groups |-> <<>>, key |-> TimeKey] >>)
    \o << [groups |-> <<>>, key |-> LevelKey] >>
    \o (IF opts.AddSource THEN << [groups |-> <<>>, key |-> SourceKey] >> ELSE <<>>)
    \o << [groups |-> <<>>, key |-> MessageKey] >>

\* The attributes a render of h takes from the header slots h inherited: those
\* that hold a value and whose key the event does not give.
Inherited(h, rec) ==
    SelectSeq(h.slots,
              LAMBDA a : a.val.kind # "Any"
                         /\ \A i \in DOMAIN rec.attrs : rec.attrs[i].key # a.key)

\* How often x occurs in seq.
Occurs(seq, x) == Cardinality({i \in DOMAIN seq : seq[i] = x})

\* C19: the hook is never called with a group; it is called once for every
\* non-group attribute at any depth, with the names the Logger was given by
\* WithGroup followed by the keys of the enclosing groups, and with no chain for
\* the built-in fields; behind a group the chain is what it was before it.
C19_HookCalls ==
    \A p \in Active :
        HasHook =>
            LET q     == procs[p]
                h     == handlers[q.h]
                calls == [i \in DOMAIN q.e.calls |->
                             [groups |-> q.e.calls[i].groups, key |-> q.e.calls[i].key]]
                want  == BuiltIns(q.rec) \o Leaves(q.rec.attrs, h.path)
                         \o Leaves(Inherited(h, q.rec), h.path)
            IN  /\ \A i \in DOMAIN q.e.calls : q.e.calls[i].kind # "Group"
                /\ \A c \in Range(calls) \cup Range(want) :
                      Occurs(calls, c) = Occurs(want, c)
                /\ q.e.groups = h.path

-----------------------------------------------------------------------------
(* Handle: the order of the sections *)

\* The bytes writeMessage appends for rec.
MessageBytes(h, rec) ==
    Flatten(writeMessage(newEncoder(NewEncoder, h), rec.level, rec.msg).out)

\* C20: the sections of a line stand in the order timestamp, level, source,
\* header slots, divider, context, message, attributes of the event,
\* terminator: the attributes bound by WithAttrs precede the message.
C20_ContextBeforeMessage ==
    \A p \in Active :
        LET q == procs[p]
            h == handlers[q.h]
        IN  Line(p) = q.parts.time \o q.parts.level \o q.parts.source \o q.parts.headers
                      \o DividerIf(q.parts.source \o q.parts.headers)
                      \o Context(h) \o MessageBytes(h, q.rec)
                      \o Spans(h, q.rec.attrs, FALSE) \o Spans(h, q.rec.attrs, TRUE)
                      \o <<"\n">>

\* C20, amended: the sections of a line stand in the order timestamp, level,
\* source, header slots, divider, message, context, attributes of the event,
\* terminator: the attributes bound by WithAttrs follow the message and precede
\* the attributes of the event.
C20_MessageBeforeContext ==
    \A p \in Active :
        LET q == procs[p]
            h == handlers[q.h]
        IN  Line(p) = q.parts.time \o q.parts.level \o q.parts.source \o q.parts.headers
                      \o DividerIf(q.parts.source \o q.parts.headers)
                      \o MessageBytes(h, q.rec) \o Context(h)
                      \o Spans(h, q.rec.attrs, FALSE) \o Spans(h, q.rec.attrs, TRUE)
                      \o <<"\n">>

\* A line with every section went to the sink: timestamp, level, source, a
\* header slot, the divider, the message, a context and an attribute of the
\* event.
C20_Witness ==
    \E p \in Active :
        LET q == procs[p]
            h == handlers[q.h]
        IN  /\ q.pc = "free"
            /\ q.parts.time # <<>> /\ q.parts.source # <<>> /\ q.parts.headers # <<>>
            /\ MessageBytes(h, q.rec) # <<>>
            /\ Context(h) # <<>>
            /\ Spans(h, q.rec.attrs, FALSE) # <<>>
            /\ Contains(Line(p), MessageBytes(h, q.rec) \o Context(h))

-----------------------------------------------------------------------------
(* Handle: the writes to the sink *)

\* The sections of an encoder in the order header, body, trailer, those
\* without bytes left out.
SectionsOf(e) ==
    SelectSeq(<< [sec |-> "header", bytes |-> e.headerBuf],
                 [sec |-> "middle", bytes |-> e.middleBuf],
                 [sec |-> "trailer", bytes |-> e.trailerBuf] >>,
              LAMBDA x : x.bytes # <<>>)

\* The sections of e that precede the position pc of Handle.
SectionsBefore(e, pc) ==
    SelectSeq(SectionsOf(e),
              LAMBDA x : \/ pc = "free"
                         \/ pc = "trailer" /\ x.sec # "trailer"
                         \/ pc = "middle" /\ x.sec = "header")

\* The writes of ws, without the render they belong to.
Plain(ws) == [i \in DOMAIN ws |-> [sec |-> ws[i].sec, bytes |-> ws[i].bytes]]

\* C21: Handle writes the sections to the sink in the order header, body,
\* trailer; when a write fails the error is returned at once, no later section
\* is written and none is written again, and the sections written before stay
\* in the sink.
C21_FlushInOrder ==
    \A p \in Procs :
        LET q == procs[p]
        IN  /\ q.pc # "idle" =>
                  Plain(Written(q.r)) = SectionsBefore(q.e, q.pc)
            /\ q.res = "err" =>
                  /\ q.pc = "idle"
                  /\ \A r \in 1..nrenders :
                        LET w == Written(r)
                        IN  w # <<>> =>
                              LET all == SectionsOf(HandleOut(handlers[w[1].h], w[1].rec))
                              IN  /\ Len(w) < Len(all)
                                  /\ Plain(w) = SubSeq(all, 1, Len(w))
            /\ q.res = "nil" =>
                  \A r \in 1..nrenders :
                      LET w == Written(r)
                      IN  w # <<>>
                          /\ Plain(w) = SectionsOf(HandleOut(handlers[w[1].h], w[1].rec))

\* The write of the trailer failed: Handle returned the error, and the header
\* and the body it had written are in the sink.
C21_Witness ==
    /\ procs[1].res = "err"
    /\ Len(Written(1)) = 2
    /\ Written(1)[1].sec = "header" /\ Written(1)[2].sec = "middle"
    /\ SectionsOf(HandleOut(handlers[Written(1)[1].h], Written(1)[1].rec))[3].sec = "trailer"

-----------------------------------------------------------------------------
(* WithAttrs: header keys, group prefix *)

\* The attributes of attrs whose key is no configured header key.
NotPromoted(attrs) == SelectSeq(attrs, LAMBDA a : HeaderIndex(a.key) = 0)

\* C22: an attribute given to WithAttrs whose key is a configured header key
\* is stored in the header slot of the derived Logger and brings no byte to
\* its bound context, whatever hook is configured, so that no render shows it
\* in the header and in the body.
C22_PromotedNotBound ==
    \A i \in DOMAIN handlers :
        handlers[i].given # <<>> =>
            LET h == handlers[handlers[i].parent]
            IN  /\ harrs[handlers[i].headers] = Override(harrs[h.headers], handlers[i].given)
                /\ handlers[i].own = BoundBytes(h, NotPromoted(handlers[i].given))

-----------------------------------------------------------------------------
(* Values that implement slog.LogValuer *)

LazyConfigs ==
    { Opt(<<kFoo>>, NoHook, FALSE, TRUE),
      Opt(<<kFoo>>, IdentHook, FALSE, TRUE),
      Opt(<<>>, IdentHook, TRUE, TRUE) }

\* The attribute lists given to WithAttrs
LazyLists ==
    { <<Attr(kK, ValuerValue(sX)), Attr(kA, GroupValue(<<Attr(kBar, ValuerValue(sY))>>))>>,
      <<Attr(kFoo, ValuerValue(sX)), Attr(kBar, sY)>> }

\* The records given to Handle
LazyEvents ==
    { Rec(1, 0, 0, <<Attr(kK, ValuerValue(sX))>>),
      Rec(1, 0, 0, <<Attr(kA, GroupValue(<<Attr(kK, ValuerValue(ValuerValue(sY)))>>)),
                     Attr(kBar, ValuerValue(GroupValue(<<Attr(kK, sZ)>>)))>>),
      Rec(1, 0, 0, <<Attr(kFoo, ValuerValue(sX)), Attr(kK, sY)>>),
      Rec(1, 4, 0, <<>>) }

\* SpecLazy: the Handlers of the lineage, the root included.
MaxLazyHandlers == 2

InitLazy == InitWith(LazyConfigs)

\* One WithAttrs at most, then one call of Handle by one caller.
NextLazy ==
    \/ \E hi \in DOMAIN handlers, as \in LazyLists, i \in 0..Len(pool) :
          Len(handlers) < MaxLazyHandlers /\ WithAttrs(hi, as, i)
    \/ \E hi \in DOMAIN handlers, rec \in LazyEvents, i \in 0..Len(pool) :
          procs[1].res = "none" /\ HandleStart(1, hi, rec, i)
    \/ \E ok \in BOOLEAN : HandleWrite(1, ok)
    \/ HandleFree(1)

SpecLazy == InitLazy /\ [][NextLazy]_vars

RECURSIVE ResolveAll(_)
\* The attributes of as with every value resolved, at every depth.
ResolveAll(as) ==
    [i \in DOMAIN as |->
        LET v == Resolve(as[i].val)
        IN  Attr(as[i].key,
                 IF v.kind = "Group" THEN GroupValue(ResolveAll(v.sub)) ELSE v)]

\* No call of the log handed the hook a value that was not resolved.
ResolvedCalls(calls) == \A k \in DOMAIN calls : calls[k].kind # "LogValuer"

\* C23: a value that implements LogValuer is resolved before its kind is
\* looked at, before the hook gets it and before it is written, wherever it
\* occurs: on an attribute of the record, inside a group, given to WithAttrs,
\* or in a header slot, with a hook or without.  Every call of the hook gets a
\* resolved value, and the header slots, the body and the bound context are
\* written as they are for the resolved values.
C23_ResolvedFirst ==
    /\ \A p \in Active :
          LET q == procs[p]
              h == handlers[q.h]
              o == HandleOut(h, [q.rec EXCEPT !.attrs = ResolveAll(NotPromoted(@))])
          IN  /\ ResolvedCalls(q.e.calls)
              /\ q.parts.headers = Flatten(writeHeaders(q.e, ResolveAll(q.parts.slots)).out)
              /\ q.e.middleBuf \o q.e.trailerBuf = o.middleBuf \o o.trailerBuf
    /\ \A i \in DOMAIN handlers :
          handlers[i].given # <<>> =>
              LET h == handlers[handlers[i].parent]
                  x == extractHeaders(h, handlers[i].given).attrs
              IN  /\ handlers[i].own = BoundBytes(h, ResolveAll(x))
                  /\ ResolvedCalls(writeAttrList(newEncoder(NewEncoder, h), x,
                                                 h.groupPrefix).e.calls)

RECURSIVE JoinDots(_)
\* strings.Join(names, ".")
JoinDots(names) ==
    IF names = <<>> THEN <<>>
    ELSE IF Len(names) = 1 THEN names[1]
    ELSE names[1] \o <<".">> \o JoinDots(Tail(names))

\* The bytes writeAttr writes for the attributes attrs of a Logger h under the
\* group names path.
Qualified(h, attrs, path) ==
    Flatten(writeAttrList(newEncoder(NewEncoder, h), attrs, JoinDots(path)).out)

\* C24: the attributes given to WithAttrs are written once, when the Logger is
\* derived, under the group names the receiver had then; a WithGroup made
\* afterwards leaves these bytes as they are and qualifies only the attributes
\* that come later, those of a record among them.
C24_PrefixAtDerivation ==
    \A d \in DOMAIN handlers :
        LET h == handlers[d]
        IN  /\ h.given # <<>> =>
                  LET p == handlers[h.parent]
                  IN  h.own = Qualified(p, extractHeaders(p, h.given).attrs, p.path)
            /\ \A a \in Lineage(d) : IsPrefix(handlers[a].want, Context(h))
            /\ \A rec \in Events :
                  LET e == HandleOut(h, rec)
                  IN  \A k \in DOMAIN rec.attrs :
                          HeaderIndex(rec.attrs[k].key) = 0 =>
                              Contains(e.middleBuf \o e.trailerBuf,
                                       Qualified(h, <<rec.attrs[k]>>, h.path))

\* WithGroup(g).WithAttrs(k=x).WithGroup(g): the bound attribute stays g.k=x,
\* and the attribute k of a record is written as g.g.k.
C24_Witness ==
    \E d \in DOMAIN handlers :
        LET h == handlers[d]
        IN  /\ h.path = <<<<"g">>, <<"g">>>>
            /\ h.parent > 1
            /\ handlers[h.parent].given = <<Attr(kK, sX)>>
            /\ handlers[h.parent].path = <<<<"g">>>>
            /\ Count(Context(h), <<"g", ".", "k", "=", "x">>) = 1
            /\ Count(Context(h), <<"g", ".", "g", ".", "k">>) = 0
            /\ Contains(HandleOut(h, Rec(1, 0, 1, <<Attr(kBar, sX), Attr(kK, sZ)>>)).middleBuf,
                        <<"g", ".", "g", ".", "k", "=", "z">>)

\* An attribute list with the header key foo at the top level and inside a group.
PromoLists ==
    { <<Attr(kFoo, sX), Attr(kA, GroupValue(<<Attr(kFoo, sY), Attr(kK, sZ)>>))>> }

\* The key under which the attribute foo of the group a is written by h.
NestedKey(h) == JoinDots(h.path \o <<kA, kFoo>>) \o <<"=">>

\* C25: whether an attribute goes to a header slot is decided by comparing the
\* header keys with the attribute's own key, and for top-level attributes only:
\* a top-level attribute of a record or of WithAttrs with a header key goes to
\* its slot, under WithGroup too, and brings nothing to the body; an attribute
\* with the same key inside a group stays in the body under its qualified key.
C25_PromotionByOwnKey ==
    kFoo \in Range(opts.Headers) =>
        \A d \in DOMAIN handlers, as \in PromoLists :
            \E h \in {handlers[d]} :
            \E enc \in {HandleEncode(h, Rec(1, 0, 0, as), NewEncoder)} :
            \E hd \in {HeaderElems(enc.e, enc.heap, enc.ref)} :
            \E key \in {NestedKey(h)} :
            \E x \in {extractHeaders(h, as)} :
                /\ hd = Override(harrs[h.headers], as)
                /\ enc.e.middleBuf
                     = HandleEncode(h, Rec(1, 0, 0, NotPromoted(as)), NewEncoder).e.middleBuf
                /\ Contains(enc.e.middleBuf, key)
                /\ x.heap[x.id] = Override(harrs[h.headers], as)
                /\ Contains(BoundBytes(h, x.attrs), key)
                /\ h.given # <<>> =>
                      harrs[h.headers] = Override(harrs[handlers[h.parent].headers], h.given)

\* A Logger derived by WithGroup(g) and then WithAttrs with the header key foo
\* at the top level: the attribute is in the slot, and a record that carries
\* foo inside the group a is written with g.a.foo in the body and the bound
\* value in the header.
C25_Witness ==
    \E d \in DOMAIN handlers :
        LET h == handlers[d]
            e == HandleOut(h, Rec(1, 0, 0, <<Attr(kA, GroupValue(<<Attr(kFoo, sY)>>)), Attr(kK, sX)>>))
        IN  /\ h.path = <<<<"g">>>>
            /\ h.given = <<Attr(kFoo, sX), Attr(kBar, sZ), Attr(kK, sY)>>
            /\ handlers[h.parent].path = <<<<"g">>>>
            /\ opts.Headers = <<kFoo, kBar>>
            /\ ~HasHook
            /\ harrs[h.headers][1] = Attr(kFoo, sX)
            /\ Contains(e.headerBuf, <<"x", " ", "z", " ">>)
            /\ Contains(e.middleBuf, <<"g", ".", "a", ".", "f", "o", "o", "=", "y">>)

-----------------------------------------------------------------------------
(* Calls of Handle one after the other, some of them failing *)

RetryConfigs ==
    { Opt(<<kFoo>>, IdentHook, FALSE, TRUE),
      Opt(<<kFoo, kBar>>, NoHook, TRUE, TRUE) }

\* The records given to Handle
RetryEvents ==
    { Rec(1, 0, 1, <<Attr(kFoo, sX), Attr(kK, sML)>>),
      Rec(1, 4, 0, <<Attr(kA, GroupValue(<<Attr(kK, sY)>>))>>) }

\* SpecRetry: the Handlers of the lineage, the root included, and the calls of
\* Handle.
MaxRetryHandlers == 2
MaxRenders == 2

InitRetry == InitWith(RetryConfigs)

\* One WithGroup at most; one caller calls Handle again and again, whatever the
\* call before returned.
NextRetry ==
    \/ \E hi \in DOMAIN handlers, name \in RenderGroupNames :
          Len(handlers) < MaxRetryHandlers /\ WithGroup(hi, name)
    \/ \E hi \in DOMAIN handlers, rec \in RetryEvents, i \in 0..Len(pool) :
          nrenders < MaxRenders /\ HandleStart(1, hi, rec, i)
    \/ \E ok \in BOOLEAN : HandleWrite(1, ok)
    \/ HandleFree(1)

SpecRetry == InitRetry /\ [][NextRetry]_vars

\* The call r of Handle wrote to the sink and returned an error before its
\* last section.
Failed(r) ==
    LET w == Written(r)
    IN  /\ w # <<>>
        /\ \A p \in Active : procs[p].r # r
        /\ Len(w) < Len(SectionsOf(HandleOut(handlers[w[1].h], w[1].rec)))

\* C26: a call of Handle does not depend on the calls before it, failed or not:
\* the sections it builds, the group chain it hands to the hook and the calls of
\* the hook are those of a first call of Handle with the same Logger and record,
\* whatever encoder the pool handed out.
C26_IndependentOfFailures ==
    \A p \in Active :
        LET q == procs[p]
            o == HandleOut(handlers[q.h], q.rec)
        IN  /\ q.e.headerBuf = o.headerBuf
            /\ q.e.middleBuf = o.middleBuf
            /\ q.e.trailerBuf = o.trailerBuf
            /\ q.e.groups = o.groups
            /\ q.e.calls = o.calls

\* The second call of Handle has built its line, for another record than the
\* first, which failed behind a section it had written.
C26_Witness ==
    /\ nrenders = 2
    /\ procs[1].r = 2
    /\ procs[1].pc = "free"
    /\ Failed(1)
    /\ Written(1)[1].rec # procs[1].rec

-----------------------------------------------------------------------------
(* The encoder pool *)

\* C27: every encoder taken from the pool is put back on every way out: when
\* Handle returns, with nil or with the error of a failed write, and when
\* WithAttrs returns.
C27_EncoderReleased ==
    [][/\ \A p \in Procs :
             procs[p].pc # "idle" /\ procs'[p].pc = "idle" => Len(pool') = Len(pool) + 1
       /\ Len(handlers') > Len(handlers) /\ handlers'[Len(handlers')].given # <<>> =>
             pool' # <<>> /\ Len(pool') >= Len(pool)]_vars

-----------------------------------------------------------------------------
(* WithGroup with empty names *)

\* The names given to WithGroup: a name, the empty name, a name of spaces
AnyGroupNames == {<<"g">>, <<>>, <<" ">>}

\* SpecNames: the Handlers of the lineage, the root included.
MaxNameHandlers == 4

\* Derivations with any name.
NextNames ==
    \/ \E hi \in DOMAIN handlers, name \in AnyGroupNames :
          Len(handlers) < MaxNameHandlers /\ WithGroup(hi, name)
    \/ \E hi \in DOMAIN handlers, as \in RenderAttrLists, i \in 0..Len(pool) :
          Len(handlers) < MaxNameHandlers /\ WithAttrs(hi, as, i)

SpecNames == Init /\ [][NextNames]_vars

\* C28: the group prefix under which a Logger writes keys is the group chain
\* it hands to the hook, joined with dots, for every Logger derived by any
\* sequence of WithGroup and WithAttrs, with names that are empty or consist of
\* spaces too.
C28_PrefixIsJoinedChain ==
    \A i \in DOMAIN handlers :
        handlers[i].groupPrefix = JoinDots(SliceElems(garrs, handlers[i].groups))

-----------------------------------------------------------------------------
(* WithAttrs and the list of its caller *)

\* the caller's list as it was given
ListUntouched(h, attrs) == attrs

\* The caller's list after h.WithAttrs(attrs) has returned.
ListAfter(h, attrs) == extractHeaders(h, attrs).attrs

\* C29: WithAttrs leaves the list of its caller as it was, so that a second
\* WithAttrs on the same Logger with the same list gives a Logger with the same
\* header slots and the same bound bytes as the first, and the two render alike.
C29_CallerListUnchanged ==
    \A j \in DOMAIN handlers :
        handlers[j].given # <<>> =>
            LET p      == handlers[handlers[j].parent]
                list   == ListAfter(p, handlers[j].given)
                second == extractHeaders(p, list)
            IN  /\ list = handlers[j].given
                /\ second.heap[second.id] = harrs[handlers[j].headers]
                /\ BoundBytes(p, second.attrs) = handlers[j].own
                /\ \A rec \in Events :
                      Flatten(writeHeaders(NewEncoder,
                                  Override(second.heap[second.id], rec.attrs)).out)
                        = Flatten(writeHeaders(NewEncoder,
                                  Override(harrs[handlers[j].headers], rec.attrs)).out)

\* C29, amended: WithAttrs puts the empty attribute in the place of every
\* attribute of the caller's list whose key is a header key and leaves the
\* others as they were; a second WithAttrs on the same Logger with the same list
\* gives a Logger with the same bound bytes as the first and with the header
\* slots of the receiver, which are those of the first if the list has no
\* attribute with a header key.
C29_CallerListHeadersRemoved ==
    \A j \in DOMAIN handlers :
        handlers[j].given # <<>> =>
            LET p      == handlers[handlers[j].parent]
                given  == handlers[j].given
                list   == ListAfter(p, given)
                second == extractHeaders(p, list)
            IN  /\ list = [i \in DOMAIN given |->
                             IF given[i].key \in Range(opts.Headers)
                             THEN EmptyAttr ELSE given[i]]
                /\ BoundBytes(p, second.attrs) = handlers[j].own
                /\ second.heap[second.id] = harrs[p.headers]
                /\ NotPromoted(given) = given =>
                      second.heap[second.id] = harrs[handlers[j].headers]

\* WithAttrs(foo=x, bar=z, k=y) with the header keys foo and bar: the list is
\* left as two empty attributes and k=y, and the slots of the Logger hold
\* values the receiver's slots do not.
C29_Witness ==
    \E j \in DOMAIN handlers :
        /\ opts.Headers = <<kFoo, kBar>>
        /\ handlers[j].given = <<Attr(kFoo, sX), Attr(kBar, sZ), Attr(kK, sY)>>
        /\ ListAfter(handlers[handlers[j].parent], handlers[j].given)
              = <<EmptyAttr, EmptyAttr, Attr(kK, sY)>>
        /\ harrs[handlers[j].headers] = <<Attr(kFoo, sX), Attr(kBar, sZ)>>
        /\ harrs[handlers[handlers[j].parent].headers] = <<EmptyAttr, EmptyAttr>>

-----------------------------------------------------------------------------
(* Calls of Handle at the same time *)

\* C30: when several callers are inside Handle at the same time and the sink
\* takes one write at a time, the header, the body and the trailer of each
\* record lie next to each other in the sink, no bytes of another record
\* between them.
C30_LineContiguous ==
    \A i, j, k \in DOMAIN sink :
        i < j /\ j < k /\ sink[i].r = sink[k].r => sink[j].r = sink[i].r

=============================================================================
